---------------------------- MODULE Spec2Model ----------------------------
(***************************************************************************)
(* Model of the sentiment engine of the mental-health prediction service   *)
(* (src/sentiment_analyzer.py): the three modality scorers, the fusion     *)
(* rule and the calls made on one SentimentAnalyzer instance; of the       *)
(* /calculate_sentiment route with its security decorators and the         *)
(* interpretation of a score (src/app_enhanced.py, src/security_privacy.py)*)
(* and of the input validation (src/error_handling.py); of the /predict    *)
(* route, the crisis check and the error responses; and of the rate        *)
(* limiter, the failed-attempt tracker and the XOR encryption of           *)
(* src/security_privacy.py.                                                *)
(*                                                                         *)
(* Numbers.  A Python float is modelled as the IEEE-754 double it is:      *)
(* sign, 53-bit significand and exponent, with +, -, *, / and the reading  *)
(* of a literal rounded to nearest, ties to even, as CPython does on the   *)
(* platforms it runs on.  Significands and the exact intermediate results  *)
(* are naturals written in base 2^15.  A Python int that meets a float is  *)
(* the double of the same value.  Subnormals and the sign of zero do not   *)
(* arise and are left out; an infinity or a NaN is met only as a value     *)
(* handed to the input validation, where it is a value of its own.         *)
(*                                                                         *)
(* Values.  None is [t |-> "none"], a dict is [t |-> "dict", d |-> f] with *)
(* f a function on the keys present, a number is [t |-> "num", v |-> r],   *)
(* a str that stands where a number is expected is [t |-> "str", ...].     *)
(* A call either returns (Ok) or raises (Raise).                           *)
(***************************************************************************)
EXTENDS Integers, Sequences, FiniteSets, TLC

VARIABLES
    vader_analyzer,     \* self.vader_analyzer: TRUE = a VADER analyzer, FALSE = None
    pc,                 \* "idle": waiting for a call; "done": a call has returned
    op,                 \* the method of the call that has returned
    text_input,         \* its arguments
    activities_data,
    survey_responses,
    textblob_out,       \* what TextBlob(...).sentiment.polarity does in this call
    vader_out,          \* what vader_analyzer.polarity_scores(...) does in this call
    request_json,       \* request.get_json(): the JSON object the client sent
    score_input,        \* the argument of get_sentiment_interpretation
    input_data,         \* the argument of validate_input_data
    args,               \* the arguments of any other call
    model_out,          \* what the scaler and the classifier do in this /predict request
    session,            \* the Flask session after the request
    now,                \* time.time(), in seconds
    rate_limits,        \* a SecurityManager: ip -> minute window -> count
    failed_attempts,    \* ip -> list of the times of its failed attempts
    blocked_ips,        \* set of blocked addresses
    calls,              \* history: ip -> minute window -> calls or requests made in it
    logged,             \* history: ip -> the times of all failed attempts logged
    ret                 \* what the call returned or raised

\* the state of the security manager and of its clients, kept across calls
manager == <<now, rate_limits, failed_attempts, blocked_ips, calls, logged>>

\* what belongs to one call of the web layer
web == <<args, model_out, session>>

vars == <<vader_analyzer, pc, op, text_input, activities_data, survey_responses,
          textblob_out, vader_out, request_json, score_input, input_data,
          args, model_out, session, now, rate_limits, failed_attempts, blocked_ips,
          calls, logged, ret>>

---------------------------------------------------------------------------
(* IEEE-754 double arithmetic, as Python floats carry it out.              *)

Base == 2 ^ 15

Limb(x, i) == IF i <= Len(x) THEN x[i] ELSE 0

RECURSIVE BTrim(_)
BTrim(x) == IF x # <<>> /\ x[Len(x)] = 0 THEN BTrim(SubSeq(x, 1, Len(x) - 1)) ELSE x

RECURSIVE BFromInt(_)
BFromInt(n) == IF n = 0 THEN <<>> ELSE <<n % Base>> \o BFromInt(n \div Base)

\* the limbs of a + b from limb i up, t the sum at limb i with its carry
RECURSIVE BAddFrom(_, _, _, _)
BAddFrom(a, b, i, t) ==
    IF i > Len(a) /\ i > Len(b) THEN (IF t = 0 THEN <<>> ELSE <<t>>)
    ELSE <<t % Base>> \o BAddFrom(a, b, i + 1, Limb(a, i + 1) + Limb(b, i + 1) + t \div Base)

BAdd(a, b) == BAddFrom(a, b, 1, Limb(a, 1) + Limb(b, 1))

\* the limbs of a - b from limb i up, t the difference at limb i with its borrow
RECURSIVE BSubFrom(_, _, _, _)
BSubFrom(a, b, i, t) ==
    IF i > Len(a) THEN <<>>
    ELSE IF t < 0
    THEN <<t + Base>> \o BSubFrom(a, b, i + 1, Limb(a, i + 1) - Limb(b, i + 1) - 1)
    ELSE <<t>> \o BSubFrom(a, b, i + 1, Limb(a, i + 1) - Limb(b, i + 1))

\* a - b for a >= b
BSub(a, b) == BTrim(BSubFrom(a, b, 1, Limb(a, 1) - Limb(b, 1)))

RECURSIVE BCmpAt(_, _, _)
BCmpAt(a, b, i) ==
    IF i = 0 THEN 0
    ELSE IF a[i] < b[i] THEN -1
    ELSE IF a[i] > b[i] THEN 1
    ELSE BCmpAt(a, b, i - 1)

\* -1, 0, 1 as a < b, a = b, a > b
BCmp(a, b) ==
    IF Len(a) < Len(b) THEN -1
    ELSE IF Len(a) > Len(b) THEN 1
    ELSE BCmpAt(a, b, Len(a))

\* the limbs of a * k from limb i up, t the product at limb i with its carry
RECURSIVE BMulSmallFrom(_, _, _, _)
BMulSmallFrom(a, k, i, t) ==
    IF i > Len(a) THEN (IF t = 0 THEN <<>> ELSE <<t>>)
    ELSE <<t % Base>> \o BMulSmallFrom(a, k, i + 1, Limb(a, i + 1) * k + t \div Base)

\* a * k for 0 <= k < Base
BMulSmall(a, k) == IF k = 0 THEN <<>> ELSE BMulSmallFrom(a, k, 1, Limb(a, 1) * k)

Reverse(s) == [i \in 1..Len(s) |-> s[Len(s) + 1 - i]]

Zeros(n) == [i \in 1..n |-> 0]

RECURSIVE BMulFrom(_, _, _)
BMulFrom(a, b, j) ==
    IF j > Len(b) THEN <<>>
    ELSE BAdd(IF b[j] = 0 THEN <<>> ELSE Zeros(j - 1) \o BMulSmall(a, b[j]),
              BMulFrom(a, b, j + 1))

BMul(a, b) == IF a = <<>> THEN <<>> ELSE BMulFrom(a, b, 1)

\* a * 2^n
BShl(a, n) ==
    IF a = <<>> THEN <<>> ELSE Zeros(n \div 15) \o BMulSmall(a, 2 ^ (n % 15))

\* floor(a / 2^n)
BShr(a, n) ==
    LET k == n \div 15
        p == 2 ^ (n % 15)
    IN  BTrim([i \in 1..(Len(a) - k) |->
                (Limb(a, i + k) \div p) + (Limb(a, i + k + 1) % p) * (Base \div p)])

\* bit i of a, bit 0 the lowest
BBit(a, i) == (Limb(a, i \div 15 + 1) \div (2 ^ (i % 15))) % 2

\* some bit of a below bit n is set
BLowBits(a, n) ==
    \/ \E i \in 1..(n \div 15) : Limb(a, i) # 0
    \/ Limb(a, n \div 15 + 1) % (2 ^ (n % 15)) # 0

RECURSIVE BitLen(_)
BitLen(n) == IF n = 0 THEN 0 ELSE 1 + BitLen(n \div 2)

BBitLen(a) == IF a = <<>> THEN 0 ELSE 15 * (Len(a) - 1) + BitLen(a[Len(a)])

\* a limb of the quotient: <<q, r - q * b>> for the largest q <= guess with
\* q * b <= r, p being guess * b
RECURSIVE BDigit(_, _, _, _)
BDigit(r, b, guess, p) ==
    IF BCmp(p, r) <= 0 THEN <<guess, BSub(r, p)>>
    ELSE BDigit(r, b, guess - 1, BMulSmall(b, guess - 1))

\* the quotient of the two top limbs of r by the top limb of b, Base - 1 at
\* most: the limb of the quotient or, the top limb of b being at least
\* Base / 2, at most 2 above it
BGuess(r, b) ==
    LET top == (Limb(r, Len(b) + 1) * Base + Limb(r, Len(b))) \div b[Len(b)]
    IN  IF top < Base THEN top ELSE Base - 1

BDivLimb(r, b) == BDigit(r, b, BGuess(r, b), BMulSmall(b, BGuess(r, b)))

BDivJoin(d, rest) == <<<<d>> \o rest[1], rest[2]>>

\* long division, a limb of the quotient at a time from limb i of a down:
\* <<the limbs of the quotient from limb i down, remainder>>, qr the limb i of
\* the quotient and the remainder it leaves
RECURSIVE BDivFrom(_, _, _, _)
BDivFrom(a, b, i, qr) ==
    IF i = 1 THEN <<<<qr[1]>>, qr[2]>>
    ELSE BDivJoin(qr[1], BDivFrom(a, b, i - 1, BDivLimb(BTrim(<<a[i - 1]>> \o qr[2]), b)))

BDivEnd(qr) == <<BTrim(Reverse(qr[1])), qr[2]>>

\* <<floor(a / b), a mod b>> for a > 0 and b with a top limb of at least Base / 2
BDivMod(a, b) == BDivEnd(BDivFrom(a, b, Len(a), BDivLimb(<<a[Len(a)]>>, b)))

\* A double: s * m * 2^e with s the sign, m = 0 or 2^52 <= m < 2^53.
FZero == [s |-> 1, m |-> <<>>, e |-> 0]

\* m1 * 2^e with m1 of 53 or, after a carry out of the rounding, 54 bits
FRenorm(s, m1, e) ==
    IF BBitLen(m1) = 54 THEN [s |-> s, m |-> BShr(m1, 1), e |-> e + 1]
    ELSE [s |-> s, m |-> m1, e |-> e]

\* m0 * 2^e rounded on what was cut off below m0: its top bit (half) and
\* whether anything is below that (rest); a tie goes to the even significand
FRoundCut(s, m0, e, half, rest) ==
    FRenorm(s, IF half /\ (rest \/ BBit(m0, 0) = 1) THEN BAdd(m0, <<1>>) ELSE m0, e)

\* FRound for M of L bits
FRoundTo(s, M, e, sticky, L) ==
    IF L = 0 THEN FZero
    ELSE IF L <= 53 THEN [s |-> s, m |-> BShl(M, 53 - L), e |-> e - (53 - L)]
    ELSE FRoundCut(s, BShr(M, L - 53), e + (L - 53), BBit(M, L - 54) = 1,
                   sticky \/ BLowBits(M, L - 54))

\* the double nearest to s * (M + f) * 2^e, ties to even, where 0 <= f < 1 and
\* f > 0 iff sticky (M of at least 55 bits when sticky)
FRound(s, M, e, sticky) == FRoundTo(s, M, e, sticky, BBitLen(M))

\* float(n) for an int n, |n| < 2^31
FromInt(n) == FRound(IF n < 0 THEN -1 ELSE 1, BFromInt(IF n < 0 THEN -n ELSE n), 0, FALSE)

FNeg(a) == IF a.m = <<>> THEN a ELSE [a EXCEPT !.s = -a.s]

\* sa * A * 2^e + sb * B * 2^e rounded, c the comparison of A with B
FAddAligned(sa, A, sb, B, e, c) ==
    IF sa = sb THEN FRound(sa, BAdd(A, B), e, FALSE)
    ELSE IF c = 0 THEN FZero
    ELSE FRound(IF c > 0 THEN sa ELSE sb, IF c > 0 THEN BSub(A, B) ELSE BSub(B, A), e, FALSE)

\* FAdd with the significands brought to the common exponent e
FAddAt(sa, A, sb, B, e) == FAddAligned(sa, A, sb, B, e, BCmp(A, B))

FAdd(a, b) ==
    IF a.m = <<>> THEN b
    ELSE IF b.m = <<>> THEN a
    ELSE IF a.e < b.e THEN FAddAt(a.s, a.m, b.s, BShl(b.m, b.e - a.e), a.e)
    ELSE FAddAt(a.s, BShl(a.m, a.e - b.e), b.s, b.m, b.e)

FSub(a, b) == FAdd(a, FNeg(b))

FMul(a, b) ==
    IF a.m = <<>> \/ b.m = <<>> THEN FZero
    ELSE FRound(a.s * b.s, BMul(a.m, b.m), a.e + b.e, FALSE)

\* the significand of a power of two
Pow52 == <<0, 0, 0, 2 ^ 7>>

\* s * (qr[1] + (a fraction, 0 iff qr[2] is 0)) * 2^e rounded
FRoundQuotient(s, qr, e) == FRound(s, qr[1], e, qr[2] # <<>>)

\* a / b for b # 0: by a power of two only the exponent changes; otherwise the
\* quotient of the significands to 56 or 57 bits (both scaled by 2^7, which
\* fills the top limb of the divisor), rounded
FDiv(a, b) ==
    IF a.m = <<>> THEN FZero
    ELSE IF b.m = Pow52 THEN [s |-> a.s * b.s, m |-> a.m, e |-> a.e - b.e - 52]
    ELSE FRoundQuotient(a.s * b.s, BDivMod(BShl(a.m, 63), BShl(b.m, 7)), a.e - b.e - 56)

\* the double nearest to n / d (d > 0): a decimal literal, int / int
Lit(n, d) == FDiv(FromInt(n), FromInt(d))

\* -1, 0, 1 as a < b, a = b, a > b
FCmp(a, b) ==
    IF a.m = <<>> /\ b.m = <<>> THEN 0
    ELSE IF a.m = <<>> THEN -b.s
    ELSE IF b.m = <<>> THEN a.s
    ELSE IF a.s # b.s THEN a.s
    ELSE IF a.e < b.e THEN -a.s
    ELSE IF a.e > b.e THEN a.s
    ELSE a.s * BCmp(a.m, b.m)

FLe(a, b) == FCmp(a, b) <= 0
FLt(a, b) == FCmp(a, b) < 0

\* Python's min(a, b) and max(a, b): the first argument unless the second is
\* strictly smaller (larger)
FMin(a, b) == IF FLt(b, a) THEN b ELSE a
FMax(a, b) == IF FLt(a, b) THEN b ELSE a

\* sum(seq): 0 + seq[1] + seq[2] + ..., from the left
RECURSIVE FSumFrom(_, _, _)
FSumFrom(seq, i, acc) ==
    IF i > Len(seq) THEN acc ELSE FSumFrom(seq, i + 1, FAdd(acc, seq[i]))

FSum(seq) == FSumFrom(seq, 1, FZero)

\* the literals of the code
c0_0 == Lit(0, 1)
c1_0 == Lit(1, 1)
c2 == Lit(2, 1)
c0_5 == Lit(5, 10)
c0_1 == Lit(1, 10)
c0_15 == Lit(15, 100)
c0_25 == Lit(25, 100)
c0_75 == Lit(75, 100)
c0_3 == Lit(3, 10)
c0_4 == Lit(4, 10)
c6 == Lit(6, 1)
c7 == Lit(7, 1)
c8 == Lit(8, 1)
c9 == Lit(9, 1)
c10 == Lit(10, 1)

---------------------------------------------------------------------------
(* Python values and call outcomes.                                        *)

None == [t |-> "none"]
Dict(f) == [t |-> "dict", d |-> f]
Num(r) == [t |-> "num", v |-> r]
NonNumeric == {[t |-> "none"], [t |-> "str", s |-> "eight"]}

Ok(v) == [t |-> "ok", v |-> v]
Raise(e) == [t |-> "raise", exc |-> e]

\* an estimator or a classifier that the call did not reach
NotCalled == [t |-> "uncalled"]

\* dict.get(key, default)
dict_get(d, key, default) == IF key \in DOMAIN d THEN d[key] ELSE default

---------------------------------------------------------------------------
(* calculate_behavioral_sentiment                                          *)

\* (mutant) no sleep reported is taken as no sleep
default_sleep_hours_zero == Num(c0_0)

\* the default of activities_data.get('sleep_hours', 8)
default_sleep_hours == Num(c8)

\* (mutant) a missing enum key is taken as low
default_level_low == "low"

\* the default of the three enum lookups
default_level == "moderate"

\* (mutant) the dead zone's endpoints 6 and 10 count as poor sleep
sleep_adjustment_closed(sleep_hours) ==
    IF FLe(c7, sleep_hours) /\ FLe(sleep_hours, c9) THEN c0_1
    ELSE IF FLe(sleep_hours, c6) \/ FLe(c10, sleep_hours) THEN FNeg(c0_1)
    ELSE c0_0

\* the sleep branch: 'if 7 <= sleep_hours <= 9 ... elif sleep_hours < 6 or
\* sleep_hours > 10 ...', as the amount added to score
sleep_adjustment(sleep_hours) ==
    IF FLe(c7, sleep_hours) /\ FLe(sleep_hours, c9) THEN c0_1
    ELSE IF FLt(sleep_hours, c6) \/ FLt(c10, sleep_hours) THEN FNeg(c0_1)
    ELSE c0_0

activity_scores == [low |-> FNeg(c0_1), moderate |-> c0_0, high |-> c0_1]
social_scores == [low |-> FNeg(c0_15), moderate |-> c0_0, high |-> c0_15]

\* (mutant) work stress as symmetric as the other two tables
stress_scores_symmetric == [low |-> c0_1, moderate |-> c0_0, high |-> FNeg(c0_1)]

stress_scores == [low |-> c0_1, moderate |-> c0_0, high |-> FNeg(c0_15)]

\* 'return max(0.0, min(1.0, score))'
clamp01(score) == FMax(c0_0, FMin(c1_0, score))

\* the body of calculate_behavioral_sentiment once the four values are read
behavioral_score(sleep_hours, activity_level, social_interaction, work_stress) ==
    IF sleep_hours.t # "num"
    THEN Raise("TypeError")     \* 7 <= None, 7 <= 'eight'
    ELSE LET s0 == c0_5
             s1 == FAdd(s0, sleep_adjustment(sleep_hours.v))
             s2 == FAdd(s1, dict_get(activity_scores, activity_level, c0_0))
             s3 == FAdd(s2, dict_get(social_scores, social_interaction, c0_0))
             s4 == FAdd(s3, dict_get(stress_scores, work_stress, c0_0))
         IN  Ok(clamp01(s4))

\* (mutant) the values are read with data[key] in place of data.get(key, default)
calculate_behavioral_sentiment_subscript(data) ==
    IF ~({"sleep_hours", "activity_level", "social_interaction", "work_stress"}
            \subseteq DOMAIN data)
    THEN Raise("KeyError")
    ELSE behavioral_score(data["sleep_hours"], data["activity_level"],
                          data["social_interaction"], data["work_stress"])

calculate_behavioral_sentiment(data) ==
    behavioral_score(dict_get(data, "sleep_hours", default_sleep_hours),
                     dict_get(data, "activity_level", default_level),
                     dict_get(data, "social_interaction", default_level),
                     dict_get(data, "work_stress", default_level))

---------------------------------------------------------------------------
(* calculate_survey_sentiment                                              *)

\* (mutant) the labels valued by their rank 0..4, not scaled to [0, 1]
FiveStep_unscaled(l0, l1, l2, l3, l4) ==
    (l0 :> c0_0) @@ (l1 :> c1_0) @@ (l2 :> c2) @@ (l3 :> Lit(3, 1)) @@ (l4 :> Lit(4, 1))

\* a table of question_scores: five labels valued 0.0, 0.25, 0.5, 0.75, 1.0
FiveStep(l0, l1, l2, l3, l4) ==
    (l0 :> c0_0) @@ (l1 :> c0_25) @@ (l2 :> c0_5) @@ (l3 :> c0_75) @@ (l4 :> c1_0)

\* (mutant) stress_level scored like the other scales, high stress high
question_scores_stress_not_inverted ==
    [mood_today |-> FiveStep("very_poor", "poor", "fair", "good", "excellent"),
     energy_level |-> FiveStep("very_low", "low", "moderate", "high", "very_high"),
     stress_level |-> FiveStep("very_low", "low", "moderate", "high", "very_high"),
     sleep_quality |-> FiveStep("very_poor", "poor", "fair", "good", "excellent"),
     social_satisfaction |-> FiveStep("very_dissatisfied", "dissatisfied", "neutral",
                                      "satisfied", "very_satisfied")]

question_scores ==
    [mood_today |-> FiveStep("very_poor", "poor", "fair", "good", "excellent"),
     energy_level |-> FiveStep("very_low", "low", "moderate", "high", "very_high"),
     stress_level |-> FiveStep("very_high", "high", "moderate", "low", "very_low"),
     sleep_quality |-> FiveStep("very_poor", "poor", "fair", "good", "excellent"),
     social_satisfaction |-> FiveStep("very_dissatisfied", "dissatisfied", "neutral",
                                      "satisfied", "very_satisfied")]

\* the test of the loop: 'question in question_scores and answer in
\* question_scores[question]'
is_scored(question, answer) ==
    /\ question \in DOMAIN question_scores
    /\ answer \in DOMAIN question_scores[question]

\* total_score after the loop over the items in qs (sums of quarters are exact
\* doubles, so the order of the items does not matter)
RECURSIVE total_score(_, _)
total_score(responses, qs) ==
    IF qs = {} THEN c0_0
    ELSE LET q == CHOOSE x \in qs : TRUE
         IN  FAdd(total_score(responses, qs \ {q}),
                  IF is_scored(q, responses[q]) THEN question_scores[q][responses[q]]
                  ELSE c0_0)

\* (mutant) every entry of a known question counts, whatever its label
question_count_any_label(responses) ==
    Cardinality({q \in DOMAIN responses : q \in DOMAIN question_scores})

\* question_count after the loop
question_count(responses) ==
    Cardinality({q \in DOMAIN responses : is_scored(q, responses[q])})

calculate_survey_sentiment(responses) ==
    IF question_count(responses) > 0
    THEN Ok(FDiv(total_score(responses, DOMAIN responses),
                 FromInt(question_count(responses))))
    ELSE Ok(c0_5)

---------------------------------------------------------------------------
(* calculate_text_sentiment.  A str is the sequence of its characters.     *)

LowerCase ==
    <<"a", "b", "c", "d", "e", "f", "g", "h", "i", "j", "k", "l", "m",
      "n", "o", "p", "q", "r", "s", "t", "u", "v", "w", "x", "y", "z">>
UpperCase ==
    <<"A", "B", "C", "D", "E", "F", "G", "H", "I", "J", "K", "L", "M",
      "N", "O", "P", "Q", "R", "S", "T", "U", "V", "W", "X", "Y", "Z">>
Digits == {"0", "1", "2", "3", "4", "5", "6", "7", "8", "9"}
Letters == {LowerCase[i] : i \in 1..26} \cup {UpperCase[i] : i \in 1..26}

\* str.lower(), character by character
lower_char(c) ==
    IF \E i \in 1..26 : UpperCase[i] = c
    THEN LowerCase[CHOOSE i \in 1..26 : UpperCase[i] = c]
    ELSE c

lower(s) == [i \in 1..Len(s) |-> lower_char(s[i])]

\* \s and \w of the re module
is_space(c) == c \in {" ", "\t", "\n", "\r"}
is_word_char(c) == c \in Letters \cup Digits \cup {"_"}

\* one character of the URL body: [a-zA-Z] | [0-9] | [$-_@.&+] | [!*\\(\\),]
\* (the range $-_ runs from 0x24 to 0x5F; %XX is covered by it)
is_url_char(c) ==
    c \in Letters \cup Digits \cup
          {"$", "%", "&", "'", "(", ")", "*", "+", ",", "-", ".", "/", ":", ";",
           "<", "=", ">", "?", "@", "[", "\\", "]", "^", "_", "!"}

\* whether pat occurs in s at position i
starts_at(s, i, pat) ==
    /\ i + Len(pat) - 1 <= Len(s)
    /\ \A k \in 1..Len(pat) : s[i + k - 1] = pat[k]

\* the length of the longest run of URL characters of s from position i
RECURSIVE url_run(_, _)
url_run(s, i) ==
    IF i <= Len(s) /\ is_url_char(s[i]) THEN 1 + url_run(s, i + 1) ELSE 0

\* the length of the match of http[s]?://(...)+ at position i of s, 0 if none
url_match(s, i) ==
    LET scheme == IF starts_at(s, i, <<"h", "t", "t", "p", "s", ":", "/", "/">>) THEN 8
                  ELSE IF starts_at(s, i, <<"h", "t", "t", "p", ":", "/", "/">>) THEN 7
                  ELSE 0
    IN  IF scheme > 0 /\ url_run(s, i + scheme) > 0
        THEN scheme + url_run(s, i + scheme)
        ELSE 0

\* re.sub(r'http[s]?://(...)+', '', text), from position i on
RECURSIVE remove_urls(_, _)
remove_urls(s, i) ==
    IF i > Len(s) THEN <<>>
    ELSE IF url_match(s, i) > 0 THEN remove_urls(s, i + url_match(s, i))
    ELSE <<s[i]>> \o remove_urls(s, i + 1)

\* re.sub(r'\s+', ' ', text), from position i on
RECURSIVE collapse_whitespace(_, _)
collapse_whitespace(s, i) ==
    IF i > Len(s) THEN <<>>
    ELSE IF is_space(s[i])
         THEN IF i > 1 /\ is_space(s[i - 1]) THEN collapse_whitespace(s, i + 1)
              ELSE <<" ">> \o collapse_whitespace(s, i + 1)
    ELSE <<s[i]>> \o collapse_whitespace(s, i + 1)

\* re.sub(r'[^\w\s.,!?]', '', text)
remove_special(s) ==
    SelectSeq(s, LAMBDA c : is_word_char(c) \/ is_space(c) \/ c \in {".", ",", "!", "?"})

\* str.strip()
RECURSIVE lstrip(_)
lstrip(s) == IF s # <<>> /\ is_space(s[1]) THEN lstrip(Tail(s)) ELSE s

RECURSIVE rstrip(_)
rstrip(s) ==
    IF s # <<>> /\ is_space(s[Len(s)]) THEN rstrip(SubSeq(s, 1, Len(s) - 1)) ELSE s

strip(s) == rstrip(lstrip(s))

clean_text(text) ==
    strip(remove_special(collapse_whitespace(remove_urls(lower(text), 1), 1)))

\* str.split(): the maximal runs of non-whitespace characters, in order
RECURSIVE split_from(_, _, _)
split_from(s, i, word) ==
    IF i > Len(s) THEN (IF word = <<>> THEN <<>> ELSE <<word>>)
    ELSE IF is_space(s[i])
         THEN (IF word = <<>> THEN <<>> ELSE <<word>>) \o split_from(s, i + 1, <<>>)
    ELSE split_from(s, i + 1, Append(word, s[i]))

split(s) == split_from(s, 1, <<>>)

positive_words ==
    {<<"g", "o", "o", "d">>,
     <<"g", "r", "e", "a", "t">>,
     <<"e", "x", "c", "e", "l", "l", "e", "n", "t">>,
     <<"a", "m", "a", "z", "i", "n", "g">>,
     <<"w", "o", "n", "d", "e", "r", "f", "u", "l">>,
     <<"f", "a", "n", "t", "a", "s", "t", "i", "c">>,
     <<"h", "a", "p", "p", "y">>,
     <<"j", "o", "y">>,
     <<"l", "o", "v", "e">>,
     <<"l", "i", "k", "e">>,
     <<"e", "n", "j", "o", "y">>,
     <<"p", "l", "e", "a", "s", "e", "d">>,
     <<"s", "a", "t", "i", "s", "f", "i", "e", "d">>,
     <<"p", "o", "s", "i", "t", "i", "v", "e">>,
     <<"o", "p", "t", "i", "m", "i", "s", "t", "i", "c">>,
     <<"h", "o", "p", "e", "f", "u", "l">>,
     <<"c", "o", "n", "f", "i", "d", "e", "n", "t">>,
     <<"e", "n", "e", "r", "g", "e", "t", "i", "c">>,
     <<"m", "o", "t", "i", "v", "a", "t", "e", "d">>,
     <<"e", "x", "c", "i", "t", "e", "d">>,
     <<"g", "r", "a", "t", "e", "f", "u", "l">>,
     <<"t", "h", "a", "n", "k", "f", "u", "l">>,
     <<"b", "l", "e", "s", "s", "e", "d">>}

negative_words ==
    {<<"b", "a", "d">>,
     <<"t", "e", "r", "r", "i", "b", "l", "e">>,
     <<"a", "w", "f", "u", "l">>,
     <<"h", "o", "r", "r", "i", "b", "l", "e">>,
     <<"d", "i", "s", "g", "u", "s", "t", "i", "n", "g">>,
     <<"h", "a", "t", "e">>,
     <<"s", "a", "d">>,
     <<"d", "e", "p", "r", "e", "s", "s", "e", "d">>,
     <<"a", "n", "g", "r", "y">>,
     <<"f", "r", "u", "s", "t", "r", "a", "t", "e", "d">>,
     <<"a", "n", "n", "o", "y", "e", "d">>,
     <<"u", "p", "s", "e", "t">>,
     <<"n", "e", "g", "a", "t", "i", "v", "e">>,
     <<"p", "e", "s", "s", "i", "m", "i", "s", "t", "i", "c">>,
     <<"h", "o", "p", "e", "l", "e", "s", "s">>,
     <<"w", "o", "r", "r", "i", "e", "d">>,
     <<"a", "n", "x", "i", "o", "u", "s">>,
     <<"s", "t", "r", "e", "s", "s", "e", "d">>,
     <<"t", "i", "r", "e", "d">>,
     <<"e", "x", "h", "a", "u", "s", "t", "e", "d">>,
     <<"l", "o", "n", "e", "l", "y">>,
     <<"i", "s", "o", "l", "a", "t", "e", "d">>}

\* sum(1 for word in words if word in word_list)
\* (mutant) a token counts when it begins with a listed word, as 'great!' does
count_in_prefix(words, word_list) ==
    Cardinality({i \in 1..Len(words) :
                    \E w \in word_list :
                        Len(w) <= Len(words[i]) /\ SubSeq(words[i], 1, Len(w)) = w})

count_in(words, word_list) ==
    Cardinality({i \in 1..Len(words) : words[i] \in word_list})

\* 'if positive_count + negative_count == 0: return 0.0' and
\* 'return (positive_count - negative_count) / (positive_count + negative_count)'
keyword_ratio(positive_count, negative_count) ==
    IF positive_count + negative_count = 0 THEN c0_0
    ELSE FDiv(FromInt(positive_count - negative_count),
              FromInt(positive_count + negative_count))

\* the counts of the words of the text in the two lists
keyword_counts(words) ==
    keyword_ratio(count_in(words, positive_words), count_in(words, negative_words))

keyword_based_sentiment(text) == keyword_counts(split(text))

\* np.mean(scores): the sum from the left, divided by the count
mean(scores) == FDiv(FSum(scores), FromInt(Len(scores)))

\* 'return max(-1.0, min(1.0, final_score))'
clamp11(score) == FMax(FNeg(c1_0), FMin(c1_0, score))

\* (mutant) an estimator that raised, or VADER missing, counts as a score of 0.0
text_scores_zero_on_failure(cleaned_text, tb, vd, has_vader) ==
    <<IF tb.t = "ok" THEN tb.v ELSE c0_0,
      IF has_vader /\ vd.t = "ok" THEN vd.v ELSE c0_0,
      keyword_based_sentiment(cleaned_text)>>

\* the list scores: what TextBlob gave unless it raised, what VADER gave when
\* there is an analyzer and it did not raise, and the keyword score
text_scores(cleaned_text, tb, vd, has_vader) ==
    (IF tb.t = "ok" THEN <<tb.v>> ELSE <<>>)
    \o (IF has_vader /\ vd.t = "ok" THEN <<vd.v>> ELSE <<>>)
    \o <<keyword_based_sentiment(cleaned_text)>>

\* (mutant) the sum of the scores is returned, neither averaged nor clamped
text_final_sum(scores) == IF scores # <<>> THEN Ok(FSum(scores)) ELSE Ok(c0_0)

\* 'if scores: ... return max(-1.0, min(1.0, final_score))' and 'return 0.0'
text_final(scores) == IF scores # <<>> THEN Ok(clamp11(mean(scores))) ELSE Ok(c0_0)

\* (mutant) the guard is 'if not text:' alone, and a value that is not a str
\* reaches text.lower()
calculate_text_sentiment_truthy_guard(text, tb, vd, has_vader) ==
    IF text.t = "none" \/ text = [t |-> "str", s |-> <<>>] \/ text = [t |-> "num", v |-> FZero]
    THEN Ok(c0_0)
    ELSE IF text.t # "str" THEN Raise("AttributeError")
    ELSE text_final(text_scores(clean_text(text.s), tb, vd, has_vader))

\* text: a Python value; tb, vd: what the two estimators do when called
\* (Ok(polarity) or Raise); has_vader: self.vader_analyzer is not None
calculate_text_sentiment(text, tb, vd, has_vader) ==
    IF text.t # "str" \/ text.s = <<>> THEN Ok(c0_0)
    ELSE text_final(text_scores(clean_text(text.s), tb, vd, has_vader))

---------------------------------------------------------------------------
(* calculate_combined_sentiment                                            *)

\* the truth value of a Python value, as 'if text_input:' takes it
truthy(v) ==
    CASE v.t = "none" -> FALSE
      [] v.t = "str" -> v.s # <<>>
      [] v.t = "dict" -> DOMAIN v.d # {}
      [] v.t = "num" -> v.v # FZero

text_weight == c0_4
behavior_weight == c0_3
survey_weight == c0_3

\* (mutant) the text score enters on its own scale [-1, 1]
text_entry_raw(text, tb, vd, has_vader) ==
    <<calculate_text_sentiment(text, tb, vd, has_vader).v, text_weight>>

\* the entry '(score, weight)' the text branch appends to scores and weights:
\* the text score moved from [-1, 1] to [0, 1]
text_entry(text, tb, vd, has_vader) ==
    LET text_score == calculate_text_sentiment(text, tb, vd, has_vader).v
        text_score_normalized == FDiv(FAdd(text_score, c1_0), c2)
    IN  <<text_score_normalized, text_weight>>

behavior_entry(activities) ==
    <<calculate_behavioral_sentiment(activities.d).v, behavior_weight>>

survey_entry(survey) ==
    <<calculate_survey_sentiment(survey.d).v, survey_weight>>

\* (mutant) the weighted sum is returned as it is, as if the weights added to 1
weighted_average_unnormalised(entries) ==
    FSum([i \in 1..Len(entries) |-> FMul(entries[i][1], entries[i][2])])

\* 'weighted_sum / total_weight' over the entries appended
weighted_average(entries) ==
    LET weighted_sum == FSum([i \in 1..Len(entries) |-> FMul(entries[i][1], entries[i][2])])
        total_weight == FSum([i \in 1..Len(entries) |-> entries[i][2]])
    IN  FDiv(weighted_sum, total_weight)

\* scores and weights after the three 'if' blocks, entry by entry
combined_entries(text, activities, survey, tb, vd, has_vader) ==
    (IF truthy(text) THEN <<text_entry(text, tb, vd, has_vader)>> ELSE <<>>)
    \o (IF truthy(activities) THEN <<behavior_entry(activities)>> ELSE <<>>)
    \o (IF truthy(survey) THEN <<survey_entry(survey)>> ELSE <<>>)

\* (mutant) no 'if scores:' guard: with nothing appended the division is 0 / 0
combined_final_unguarded(entries) ==
    IF entries # <<>> THEN Ok(weighted_average(entries)) ELSE Raise("ZeroDivisionError")

\* 'if scores: ... return weighted_sum / total_weight' and 'return 0.5'
combined_final(entries) ==
    IF entries # <<>> THEN Ok(weighted_average(entries)) ELSE Ok(c0_5)

calculate_combined_sentiment(text, activities, survey, tb, vd, has_vader) ==
    IF truthy(activities) /\ calculate_behavioral_sentiment(activities.d).t = "raise"
    THEN calculate_behavioral_sentiment(activities.d)
    ELSE combined_final(combined_entries(text, activities, survey, tb, vd, has_vader))

---------------------------------------------------------------------------
(* The /calculate_sentiment route of src/app_enhanced.py: the two security *)
(* decorators, the handler and the interpretation of a score.              *)

RECURSIVE BToInt(_)
BToInt(a) == IF a = <<>> THEN 0 ELSE a[1] + Base * BToInt(Tail(a))

\* the integer nearest to M * 2^e, ties to even
BNearest(M, e) ==
    IF e >= 0 THEN BShl(M, e)
    ELSE IF BBit(M, -e - 1) = 1 /\ (BLowBits(M, -e - 1) \/ BBit(M, -e) = 1)
         THEN BAdd(BShr(M, -e), <<1>>)
    ELSE BShr(M, -e)

\* round(x, 3) of a float: the decimal of three places nearest to the exact
\* value of x, ties to even, read back as a double (|x| < 2^20)
round_float(x) ==
    IF x.m = <<>> THEN x
    ELSE Lit(x.s * BToInt(BNearest(BMulSmall(x.m, 10 ^ 3), x.e)), 10 ^ 3)

\* round(x, 3) where numpy carries it out: rint(x * 1000.0) / 1000.0
round_float64(x) ==
    IF x.m = <<>> THEN x
    ELSE FDiv(FRound(x.s, BNearest(FMul(x, FromInt(10 ^ 3)).m, FMul(x, FromInt(10 ^ 3)).e),
                     0, FALSE),
              FromInt(10 ^ 3))

c0_7 == Lit(7, 10)

\* (mutant) the upper boundary is strict: 'if score > 0.7'
get_sentiment_interpretation_strict(score) ==
    IF FLt(c0_7, score)
    THEN [level |-> "positive",
          description |-> "Positive sentiment - High mental health",
          recommendation |-> "Continue maintaining your positive outlook and healthy habits!",
          color |-> "green"]
    ELSE IF FLe(score, c0_3)
    THEN [level |-> "negative",
          description |-> "Negative sentiment - Low mental health",
          recommendation |-> "Consider reaching out to a mental health professional for support.",
          color |-> "red"]
    ELSE [level |-> "neutral",
          description |-> "Neutral sentiment - Moderate mental health",
          recommendation |-> "Monitor your mental health and consider self-care practices.",
          color |-> "blue"]

get_sentiment_interpretation(score) ==
    IF FLe(c0_7, score)
    THEN [level |-> "positive",
          description |-> "Positive sentiment - High mental health",
          recommendation |-> "Continue maintaining your positive outlook and healthy habits!",
          color |-> "green"]
    ELSE IF FLe(score, c0_3)
    THEN [level |-> "negative",
          description |-> "Negative sentiment - Low mental health",
          recommendation |-> "Consider reaching out to a mental health professional for support.",
          color |-> "red"]
    ELSE [level |-> "neutral",
          description |-> "Neutral sentiment - Moderate mental health",
          recommendation |-> "Monitor your mental health and consider self-care practices.",
          color |-> "blue"]

\* jsonify(body), status
Response(status, body) == [t |-> "response", status |-> status, body |-> body]

\* MentalHealthError.__init__: user_message or message, user_message being
\* None or a str
MentalHealthError(message, error_code, user_message) ==
    [t |-> "raise", exc |-> "MentalHealthError", message |-> message,
     error_code |-> error_code,
     user_message |-> IF user_message.t = "none" THEN message
                      ELSE IF user_message.s = "" THEN message
                      ELSE user_message.s]

ModelError(message) ==
    [t |-> "raise", exc |-> "ModelError", message |-> message,
     error_code |-> "MODEL_ERROR",
     user_message |-> "Unable to process your request. Please try again."]

CrisisDetectionError(message) ==
    [t |-> "raise", exc |-> "CrisisDetectionError", message |-> message,
     error_code |-> "CRISIS_DETECTED",
     user_message |-> "Please seek immediate professional help. Contact emergency services or a mental health professional."]

\* Config.CRISIS_THRESHOLD = 0.8
CRISIS_THRESHOLD == Lit(8, 10)

\* (mutant) the threshold itself is a crisis
check_crisis_conditions_from_threshold(prediction, probabilities) ==
    IF prediction = "Low" /\ FLe(CRISIS_THRESHOLD, dict_get(probabilities, "Low", c0_0))
    THEN CrisisDetectionError(
             [text |-> "High confidence prediction of low mental health status detected.",
              confidence |-> dict_get(probabilities, "Low", c0_0)])
    ELSE Ok(FALSE)

\* check_crisis_conditions: prediction == "Low" and
\* probabilities.get("Low", 0) > Config.CRISIS_THRESHOLD
check_crisis_conditions(prediction, probabilities) ==
    IF prediction = "Low" /\ FLt(CRISIS_THRESHOLD, dict_get(probabilities, "Low", c0_0))
    THEN CrisisDetectionError(
             [text |-> "High confidence prediction of low mental health status detected.",
              confidence |-> dict_get(probabilities, "Low", c0_0)])
    ELSE Ok(FALSE)

\* (mutant) the branch for ValidationError comes first and adds the field
handle_error_validation_first(error) ==
    IF error.exc = "ValidationError"
    THEN Response(400, [error |-> error.user_message, error_code |-> error.error_code,
                        field |-> error.field, timestamp |-> "utcnow"])
    ELSE IF error.exc \in {"MentalHealthError", "ModelError", "CrisisDetectionError"}
    THEN Response(400, [error |-> error.user_message, error_code |-> error.error_code,
                        timestamp |-> "utcnow"])
    ELSE Response(500, [error |-> "An unexpected error occurred. Please try again later.",
                        error_code |-> "INTERNAL_ERROR", timestamp |-> "utcnow"])

\* handle_error: a MentalHealthError is answered with its user message and
\* 400, anything else with INTERNAL_ERROR and 500
handle_error(error) ==
    IF error.exc \in {"MentalHealthError", "ValidationError", "ModelError", "CrisisDetectionError"}
    THEN Response(400, [error |-> error.user_message, error_code |-> error.error_code,
                        timestamp |-> "utcnow"])
    ELSE Response(500, [error |-> "An unexpected error occurred. Please try again later.",
                        error_code |-> "INTERNAL_ERROR", timestamp |-> "utcnow"])

RATE_LIMIT_PER_MINUTE == 60

\* SecurityManager.__init__
SecurityManager == [failed_attempts |-> <<>>, blocked_ips |-> {}, rate_limits |-> <<>>]

\* int(current_time // 60)
minute_window(current_time) == current_time \div 60

\* the entry of ip in a table of the manager, the empty one when it has none
table_of(table, ip_address) == IF ip_address \in DOMAIN table THEN table[ip_address] ELSE <<>>

\* the table with the entry of ip set
with_entry(table, ip_address, entry) ==
    [x \in DOMAIN table \cup {ip_address} |-> IF x = ip_address THEN entry ELSE table[x]]

\* rate_limits[ip][minute_window] is created with 0 when missing, then += 1
counted(windows, w) ==
    [x \in DOMAIN windows \cup {w} |->
        IF x = w THEN (IF w \in DOMAIN windows THEN windows[w] ELSE 0) + 1 ELSE windows[x]]

\* 'Clean old windows': del of every window < minute_window - 1
cleaned(windows, w) == [x \in {y \in DOMAIN windows : ~(y < w - 1)} |-> windows[x]]

\* (mutant) the call that reaches the limit is rejected already
check_rate_limit_inclusive(rl, ip_address, current_time) ==
    [rate_limits |->
        with_entry(rl, ip_address,
                   cleaned(counted(table_of(rl, ip_address), minute_window(current_time)),
                           minute_window(current_time))),
     ret |->
        IF counted(table_of(rl, ip_address), minute_window(current_time))[minute_window(current_time)]
               >= RATE_LIMIT_PER_MINUTE
        THEN <<FALSE, "Rate limit exceeded">>
        ELSE <<TRUE, "Rate limit check passed">>]

\* check_rate_limit on the table rl: the table afterwards and what is returned
check_rate_limit(rl, ip_address, current_time) ==
    [rate_limits |->
        with_entry(rl, ip_address,
                   cleaned(counted(table_of(rl, ip_address), minute_window(current_time)),
                           minute_window(current_time))),
     ret |->
        IF dict_get(cleaned(counted(table_of(rl, ip_address), minute_window(current_time)),
                            minute_window(current_time)),
                    minute_window(current_time), 0) > RATE_LIMIT_PER_MINUTE
        THEN <<FALSE, "Rate limit exceeded">>
        ELSE <<TRUE, "Rate limit check passed">>]

\* 'Clean old attempts': the attempts with current_time - attempt < 3600
recent(attempts, current_time) ==
    SelectSeq(attempts, LAMBDA attempt : current_time - attempt < 3600)

\* (mutant) the tenth attempt blocks already
check_failed_attempts_from_ten(fa, blocked, ip_address, current_time) ==
    [failed_attempts |-> with_entry(fa, ip_address, recent(table_of(fa, ip_address), current_time)),
     blocked_ips |->
        IF Len(recent(table_of(fa, ip_address), current_time)) >= 10
        THEN blocked \cup {ip_address} ELSE blocked,
     ret |->
        IF Len(recent(table_of(fa, ip_address), current_time)) >= 10
        THEN <<FALSE, "IP address blocked due to suspicious activity">>
        ELSE <<TRUE, "Failed attempts check passed">>]

\* check_failed_attempts on the lists fa and the set blocked: both afterwards
\* and what is returned
check_failed_attempts(fa, blocked, ip_address, current_time) ==
    [failed_attempts |-> with_entry(fa, ip_address, recent(table_of(fa, ip_address), current_time)),
     blocked_ips |->
        IF Len(recent(table_of(fa, ip_address), current_time)) > 10
        THEN blocked \cup {ip_address} ELSE blocked,
     ret |->
        IF Len(recent(table_of(fa, ip_address), current_time)) > 10
        THEN <<FALSE, "IP address blocked due to suspicious activity">>
        ELSE <<TRUE, "Failed attempts check passed">>]

\* log_failed_attempt: the lists afterwards
log_failed_attempt(fa, ip_address, current_time) ==
    with_entry(fa, ip_address, Append(table_of(fa, ip_address), current_time))

\* the wrapper of require_security_check around the handler f, with the
\* manager it makes for the request: Ok("f") when f is called.  Its refusals
\* (403, 429, 403) call jsonify, which security_privacy.py does not import.
decorated_function(ip_address, current_time) ==
    IF ip_address \in SecurityManager.blocked_ips
    THEN Raise("NameError")
    ELSE IF ~check_rate_limit(SecurityManager.rate_limits, ip_address, current_time).ret[1]
    THEN Raise("NameError")
    ELSE IF ~check_failed_attempts(SecurityManager.failed_attempts, SecurityManager.blocked_ips,
                                   ip_address, current_time).ret[1]
    THEN Raise("NameError")
    ELSE Ok("f")

\* require_security_check: the SecurityManager is made for the request, so no
\* address is blocked, no attempt is on record and the count of the minute
\* goes from 0 to 1
require_security_check == ~(0 + 1 > RATE_LIMIT_PER_MINUTE)

\* re.search of a literal: sub occurs in s
contains(s, sub) ==
    \E i \in 1..(Len(s) - Len(sub) + 1) : SubSeq(s, i, i + Len(sub) - 1) = sub

\* re.search(r"\b(W1|W2|...)\b", s, re.IGNORECASE)
contains_word(s, words) ==
    \E i \in 1..Len(s), j \in 1..Len(s) :
        /\ i <= j
        /\ lower(SubSeq(s, i, j)) \in words
        /\ (i = 1 \/ ~is_word_char(s[i - 1]))
        /\ (j = Len(s) \/ ~is_word_char(s[j + 1]))

sql_keywords ==
    {<<"s", "e", "l", "e", "c", "t">>, <<"i", "n", "s", "e", "r", "t">>,
     <<"u", "p", "d", "a", "t", "e">>, <<"d", "e", "l", "e", "t", "e">>,
     <<"d", "r", "o", "p">>, <<"c", "r", "e", "a", "t", "e">>,
     <<"a", "l", "t", "e", "r">>, <<"e", "x", "e", "c">>, <<"u", "n", "i", "o", "n">>,
     <<"s", "c", "r", "i", "p", "t">>,
     <<"j", "a", "v", "a", "s", "c", "r", "i", "p", "t">>,
     <<"v", "b", "s", "c", "r", "i", "p", "t">>}

\* a pattern of sql_patterns or xss_patterns is found in the str s.  The
\* patterns with '=' (OR 1=1, on...=) and with '<' (the tags) are decided for
\* strings holding neither character, where they cannot match.
threat_found(s) ==
    \/ contains_word(s, sql_keywords)
    \/ \E sub \in {<<"-", "-">>, <<"#">>, <<"/", "*">>, <<"*", "/">>} : contains(s, sub)
    \/ contains(lower(s), <<"j", "a", "v", "a", "s", "c", "r", "i", "p", "t", ":">>)

\* SecurityManager.validate_input_security(data)[0]
validate_input_security(data) ==
    \A k \in DOMAIN data : data[k].t = "str" => ~threat_found(data[k].s)

\* re.sub(r'[<>"\']', '', value).strip() on the str values
sanitize_user_input(data) ==
    [k \in DOMAIN data |->
        IF data[k].t = "str"
        THEN [t |-> "str",
              s |-> strip(SelectSeq(data[k].s, LAMBDA c : c \notin {"<", ">", "\"", "'"}))]
        ELSE data[k]]

\* (mutant) the text branch is taken whenever the key is there
text_selected_by_key(data) == "text" \in DOMAIN data /\ data["text"].t = "str"

\* the text branch of the handler is taken: 'text' in data and data['text'].strip()
text_selected(data) ==
    "text" \in DOMAIN data /\ data["text"].t = "str" /\ strip(data["text"].s) # <<>>

\* (mutant) two or more modalities in the request are fused
select_method_fused(data, tb, vd, has_vader) ==
    IF "text" \in DOMAIN data /\ data["text"].t # "str"
    THEN <<"none", Raise("AttributeError")>>
    ELSE IF text_selected(data) /\ DOMAIN data \cap {"activities", "survey"} = {}
    THEN <<"text_analysis", calculate_text_sentiment(data["text"], tb, vd, has_vader)>>
    ELSE IF "activities" \in DOMAIN data /\ ~text_selected(data) /\ "survey" \notin DOMAIN data
    THEN <<"behavioral_analysis",
           IF data["activities"].t # "dict" THEN Raise("AttributeError")
           ELSE calculate_behavioral_sentiment(data["activities"].d)>>
    ELSE IF "survey" \in DOMAIN data /\ ~text_selected(data) /\ "activities" \notin DOMAIN data
    THEN <<"survey_analysis",
           IF data["survey"].t # "dict" THEN Raise("AttributeError")
           ELSE calculate_survey_sentiment(data["survey"].d)>>
    ELSE <<"combined_analysis",
           IF \E k \in DOMAIN data \cap {"activities", "survey"} : data[k].t # "dict"
           THEN Raise("AttributeError")
           ELSE calculate_combined_sentiment(dict_get(data, "text", None),
                                             dict_get(data, "activities", None),
                                             dict_get(data, "survey", None), tb, vd, has_vader)>>

\* the if/elif chain of the handler: <<method_used, what the scorer returned or
\* raised>>; .strip() of a value that is no str and .get/.items of a value
\* that is no dict raise AttributeError
select_method(data, tb, vd, has_vader) ==
    IF "text" \in DOMAIN data /\ data["text"].t # "str"
    THEN <<"none", Raise("AttributeError")>>
    ELSE IF text_selected(data)
    THEN <<"text_analysis", calculate_text_sentiment(data["text"], tb, vd, has_vader)>>
    ELSE IF "activities" \in DOMAIN data
    THEN <<"behavioral_analysis",
           IF data["activities"].t # "dict" THEN Raise("AttributeError")
           ELSE calculate_behavioral_sentiment(data["activities"].d)>>
    ELSE IF "survey" \in DOMAIN data
    THEN <<"survey_analysis",
           IF data["survey"].t # "dict" THEN Raise("AttributeError")
           ELSE calculate_survey_sentiment(data["survey"].d)>>
    ELSE <<"combined_analysis",
           calculate_combined_sentiment(dict_get(data, "text", None),
                                        dict_get(data, "activities", None),
                                        dict_get(data, "survey", None), tb, vd, has_vader)>>

\* round(sentiment_score, 3): the text score is a numpy float64, which numpy
\* rounds itself or leaves to float.__round__, depending on its version
rounded(method_used, sentiment_score) ==
    IF method_used = "text_analysis"
    THEN {round_float(sentiment_score), round_float64(sentiment_score)}
    ELSE {round_float(sentiment_score)}

\* (mutant) the text score is moved to [0, 1] before it is interpreted
respond_rescaled(selected) ==
    IF selected[2].t = "raise" THEN {handle_error(selected[2])}
    ELSE IF selected[2].v = None
    THEN {Response(400, [error |-> "Unable to calculate sentiment score"])}
    ELSE {Response(200, [sentiment_score |-> r,
                         method_used |-> selected[1],
                         interpretation |->
                             get_sentiment_interpretation(
                                 IF selected[1] = "text_analysis"
                                 THEN FDiv(FAdd(selected[2].v, c1_0), c2)
                                 ELSE selected[2].v),
                         timestamp |-> "utcnow",
                         status |-> "success"]) : r \in rounded(selected[1], selected[2].v)}

\* the handler from the chosen method on: the responses it can give
respond(selected) ==
    IF selected[2].t = "raise" THEN {handle_error(selected[2])}
    ELSE IF selected[2].v = None
    THEN {Response(400, [error |-> "Unable to calculate sentiment score"])}
    ELSE {Response(200, [sentiment_score |-> r,
                         method_used |-> selected[1],
                         interpretation |-> get_sentiment_interpretation(selected[2].v),
                         timestamp |-> "utcnow",
                         status |-> "success"]) : r \in rounded(selected[1], selected[2].v)}

\* the route on the JSON object data: what the client can get.  The refusals
\* of the decorators call jsonify, which security_privacy.py does not import.
calculate_sentiment(data, tb, vd, has_vader) ==
    IF ~require_security_check \/ ~validate_input_security(data) THEN {Raise("NameError")}
    ELSE IF DOMAIN data = {} THEN {Response(400, [error |-> "No data provided"])}
    ELSE respond(select_method(sanitize_user_input(data), tb, vd, has_vader))

---------------------------------------------------------------------------
(* validate_input_data of src/error_handling.py.  Beside float and str a   *)
(* field may hold an int ([t |-> "int"], or "bigint" past the range of a   *)
(* double), a NaN or an infinity.  An entry of the error list is kept as   *)
(* the field, the kind of message and what the message quotes.             *)

FEATURE_COLUMNS ==
    <<"Sentiment_Score", "HRV", "Sleep_Hours", "Activity", "Age", "Gender", "Work_Study_Hours">>

PyInt(n) == [t |-> "int", n |-> n]
BigInt == [t |-> "bigint"]
NaN == [t |-> "nan"]
Inf(s) == [t |-> "inf", s |-> s]

RECURSIVE digits_value(_)
digits_value(ds) ==
    IF ds = <<>> THEN 0
    ELSE 10 * digits_value(SubSeq(ds, 1, Len(ds) - 1))
            + (CHOOSE k \in 0..9 : ToString(k) = ds[Len(ds)])

is_digits(s) == s # <<>> /\ \A i \in 1..Len(s) : s[i] \in Digits

\* the sign of a numeral and the numeral without it
sign_of(s) == IF s # <<>> /\ s[1] = "-" THEN -1 ELSE 1
unsigned(s) == IF s # <<>> /\ s[1] \in {"+", "-"} THEN Tail(s) ELSE s

\* float(s) of the unsigned numeral b with sign sg: nan, inf, infinity, or
\* digits with at most one point (numerals with an exponent or underscores
\* are not among the inputs)
float_numeral(sg, b) ==
    IF lower(b) = <<"n", "a", "n">> THEN Ok(NaN)
    ELSE IF lower(b) \in {<<"i", "n", "f">>, <<"i", "n", "f", "i", "n", "i", "t", "y">>}
    THEN Ok(Inf(sg))
    ELSE IF is_digits(b) THEN Ok(Num(FromInt(sg * digits_value(b))))
    ELSE IF \E p \in 1..Len(b) :
                /\ b[p] = "."
                /\ is_digits(SubSeq(b, 1, p - 1) \o SubSeq(b, p + 1, Len(b)))
    THEN Ok(Num(Lit(sg * digits_value(SelectSeq(b, LAMBDA c : c # ".")),
                    10 ^ (Len(b) - (CHOOSE p \in 1..Len(b) : b[p] = ".")))))
    ELSE Raise("ValueError")

\* float(value)
float_of(value) ==
    CASE value.t \in {"num", "nan", "inf"} -> Ok(value)
      [] value.t = "int" -> Ok(Num(FromInt(value.n)))
      [] value.t = "bigint" -> Raise("OverflowError")
      [] value.t = "str" -> float_numeral(sign_of(strip(value.s)), unsigned(strip(value.s)))
      [] OTHER -> Raise("TypeError")

\* int(x) of a finite float: towards zero (|x| < 2^31)
truncate(x) ==
    IF x.m = <<>> THEN 0
    ELSE x.s * BToInt(IF x.e >= 0 THEN BShl(x.m, x.e) ELSE BShr(x.m, -x.e))

\* int(value)
int_of(value) ==
    CASE value.t \in {"int", "bigint"} -> Ok(value)
      [] value.t = "num" -> Ok(PyInt(truncate(value.v)))
      [] value.t = "nan" -> Raise("ValueError")
      [] value.t = "inf" -> Raise("OverflowError")
      [] value.t = "str" ->
            IF is_digits(unsigned(strip(value.s)))
            THEN Ok(PyInt(sign_of(strip(value.s)) * digits_value(unsigned(strip(value.s)))))
            ELSE Raise("ValueError")
      [] OTHER -> Raise("TypeError")

\* val < 0 and val > bound of a converted value; a comparison with NaN is False
is_negative(val) ==
    CASE val.t = "num" -> FLt(val.v, FZero)
      [] val.t = "int" -> val.n < 0
      [] val.t = "inf" -> val.s = -1
      [] OTHER -> FALSE

exceeds(val, bound) ==
    CASE val.t = "num" -> FLt(FromInt(bound), val.v)
      [] val.t = "int" -> val.n > bound
      [] val.t = "inf" -> val.s = 1
      [] val.t = "bigint" -> TRUE
      [] OTHER -> FALSE

\* type(value).__name__
type_name(value) ==
    CASE value.t = "num" \/ value.t = "nan" \/ value.t = "inf" -> "float"
      [] value.t = "int" \/ value.t = "bigint" -> "int"
      [] value.t = "str" -> "str"
      [] value.t = "dict" -> "dict"
      [] value.t = "none" -> "NoneType"

\* the upper bounds written in the checks
upper_bound ==
    [Sentiment_Score |-> 1, HRV |-> 200, Sleep_Hours |-> 24, Activity |-> 100000,
     Age |-> 120, Work_Study_Hours |-> 24]

\* the wording of the messages for a value that does not convert and for one
\* above the bound
type_message(field) ==
    IF field \in {"Activity", "Age"} THEN "must be a whole number" ELSE "must be a number"

high_message(field) ==
    IF field \in {"Sleep_Hours", "Work_Study_Hours"} THEN "cannot exceed 24"
    ELSE "seems unusually high"

ErrorEntry(field, kind, got) == [field |-> field, kind |-> kind, got |-> got]

\* the try block of a numeric field once float(value) or int(value) has given
\* c: the entries it appends, or the exception it lets through (only
\* ValueError and TypeError are caught)
check_converted(field, value, c) ==
    IF c.t = "raise"
    THEN (IF c.exc \in {"ValueError", "TypeError"}
          THEN Ok(<<ErrorEntry(field, type_message(field), type_name(value))>>)
          ELSE c)
    ELSE IF field = "Sentiment_Score"
    THEN (IF c.v.t = "nan" \/ is_negative(c.v) \/ exceeds(c.v, upper_bound[field])
          THEN Ok(<<ErrorEntry(field, "must be between 0 and 1", c.v)>>)
          ELSE Ok(<<>>))
    ELSE IF is_negative(c.v) THEN Ok(<<ErrorEntry(field, "cannot be negative", c.v)>>)
    ELSE IF exceeds(c.v, upper_bound[field])
    THEN Ok(<<ErrorEntry(field, high_message(field), c.v)>>)
    ELSE Ok(<<>>)

\* one pass of the loop body
check_field(field, data) ==
    IF field \notin DOMAIN data THEN Ok(<<ErrorEntry(field, "Missing required field", field)>>)
    ELSE IF field = "Gender"
    THEN (IF data[field] \notin {[t |-> "str", s |-> <<"M", "a", "l", "e">>],
                                 [t |-> "str", s |-> <<"F", "e", "m", "a", "l", "e">>]}
          THEN Ok(<<ErrorEntry(field, "must be 'Male' or 'Female'", data[field])>>)
          ELSE Ok(<<>>))
    ELSE IF field \in {"Activity", "Age"}
    THEN check_converted(field, data[field], int_of(data[field]))
    ELSE check_converted(field, data[field], float_of(data[field]))

\* raise ValidationError("input_data", data, "; ".join(errors))
ValidationError(field, value, errors) ==
    [t |-> "raise", exc |-> "ValidationError", field |-> field, value |-> value,
     errors |-> errors, error_code |-> "VALIDATION_ERROR", user_message |-> errors]

\* the loop from field i on with the errors so far, c the outcome of field i
RECURSIVE validate_from(_, _, _, _)
validate_from(data, i, errors, c) ==
    IF c.t = "raise" THEN c
    ELSE IF i = Len(FEATURE_COLUMNS)
    THEN (IF errors \o c.v # <<>> THEN ValidationError("input_data", data, errors \o c.v)
          ELSE Ok(TRUE))
    ELSE validate_from(data, i + 1, errors \o c.v, check_field(FEATURE_COLUMNS[i + 1], data))

validate_input_data(data) == validate_from(data, 1, <<>>, check_field(FEATURE_COLUMNS[1], data))

---------------------------------------------------------------------------
(* The /predict route of src/app_enhanced.py.  The scaler and the          *)
(* classifier are loaded from files: what they do on a request is an       *)
(* outcome out, either Raise(...) or Ok([prediction |-> k, probs |-> p])   *)
(* with p the row of predict_proba, indexed from 0.                        *)

\* Config.HEALTH_STATUS_MAPPING
HEALTH_STATUS_MAPPING == (0 :> "Low") @@ (1 :> "Moderate") @@ (2 :> "High")

\* {health_status[i]: float(prob) for i, prob in enumerate(probs)}
prob_dict(probs) == [label \in {HEALTH_STATUS_MAPPING[i] : i \in DOMAIN probs} |->
                        probs[CHOOSE i \in DOMAIN probs : HEALTH_STATUS_MAPPING[i] = label]]

\* probs.max()
max_prob(probs) == CHOOSE p \in {probs[i] : i \in DOMAIN probs} :
                       \A i \in DOMAIN probs : FLe(probs[i], p)

\* the disclaimer for borderline predictions
disclaimer_for(probs) ==
    IF FLt(max_prob(probs), c0_7)
    THEN "This prediction is uncertain (confidence below 70%). Please consult a professional for an accurate assessment."
    ELSE ""

chatbot_message_for(result) ==
    IF result = "Low"
    THEN "It looks like you might be experiencing low mental health. Consider reaching out to a friend or professional for support."
    ELSE IF result = "Moderate"
    THEN "Your mental health seems moderate. Keep up with self-care practices, and consider talking to someone if you feel overwhelmed."
    ELSE "Great news! Your mental health appears to be high. Keep maintaining your healthy habits!"

\* create_success_response; processing_time is the time the classifier took
create_success_response(prediction, probabilities, disclaimer, chatbot_message, processing_time) ==
    Response(200, [prediction |-> prediction,
                   probabilities |-> probabilities,
                   disclaimer |-> disclaimer,
                   model_accuracy |-> "This model has a cross-validation accuracy of 80.8%.",
                   chatbot_message |-> chatbot_message,
                   processing_time_ms |-> processing_time,
                   timestamp |-> "utcnow",
                   status |-> "success"])

\* the try block around check_crisis_conditions: crisis_detected and
\* crisis_confidence, which the handler sets and does not read again
crisis_flags(result, probabilities) ==
    IF check_crisis_conditions(result, probabilities).t = "raise"
    THEN [crisis_detected |-> TRUE, crisis_confidence |-> dict_get(probabilities, "Low", c0_0)]
    ELSE [crisis_detected |-> FALSE, crisis_confidence |-> None]

\* the handler from the output out of the classifier on: the response is made
\* of the result, the probabilities, the disclaimer and the chatbot message
answer(out) ==
    create_success_response(
        HEALTH_STATUS_MAPPING[out.v.prediction], prob_dict(out.v.probs),
        disclaimer_for(out.v.probs),
        chatbot_message_for(HEALTH_STATUS_MAPPING[out.v.prediction]),
        "elapsed")

\* session.get('session_id', str(uuid.uuid4())); session['session_id'] = session_id
with_session_id(session_before) ==
    IF "session_id" \in DOMAIN session_before THEN session_before
    ELSE session_before @@ ("session_id" :> "uuid4")

\* POST /predict with the JSON object data: the response, what was asked of
\* the classifier, and the session afterwards.  The refusals of the
\* decorators call jsonify, which security_privacy.py does not import.
predict(data, session_before, out) ==
    IF ~require_security_check \/ ~validate_input_security(data)
    THEN [ret |-> Raise("NameError"), model_out |-> NotCalled, session |-> session_before]
    ELSE IF validate_input_data(sanitize_user_input(data)).t = "raise"
    THEN [ret |-> handle_error(validate_input_data(sanitize_user_input(data))),
          model_out |-> NotCalled, session |-> session_before]
    ELSE IF out.t = "raise"
    THEN [ret |-> handle_error(out), model_out |-> out,
          session |-> with_session_id(session_before)]
    ELSE [ret |-> answer(out), model_out |-> out, session |-> with_session_id(session_before)]

---------------------------------------------------------------------------
(* DataEncryption of src/security_privacy.py.  A str is the sequence of    *)
(* its code points here, bytes are a sequence of numbers 0..255.           *)

\* str.encode(): the UTF-8 bytes of one code point
encode_char(cp) ==
    IF cp < 128 THEN <<cp>>
    ELSE IF cp < 2048 THEN <<192 + (cp \div 64), 128 + (cp % 64)>>
    ELSE IF cp < 65536 THEN <<224 + (cp \div 4096), 128 + ((cp \div 64) % 64), 128 + (cp % 64)>>
    ELSE <<240 + (cp \div 262144), 128 + ((cp \div 4096) % 64), 128 + ((cp \div 64) % 64),
           128 + (cp % 64)>>

RECURSIVE encode(_)
encode(data) == IF data = <<>> THEN <<>> ELSE encode_char(Head(data)) \o encode(Tail(data))

\* the length of the UTF-8 sequence a lead byte opens, 0 for a byte that opens none
sequence_length(b) ==
    IF b < 128 THEN 1
    ELSE IF b >= 194 /\ b <= 223 THEN 2
    ELSE IF b >= 224 /\ b <= 239 THEN 3
    ELSE IF b >= 240 /\ b <= 244 THEN 4
    ELSE 0

is_continuation(b) == b >= 128 /\ b <= 191

\* the code point of a well-formed sequence bs of UTF-8 bytes
code_point(bs) ==
    IF Len(bs) = 1 THEN bs[1]
    ELSE IF Len(bs) = 2 THEN (bs[1] - 192) * 64 + (bs[2] - 128)
    ELSE IF Len(bs) = 3 THEN (bs[1] - 224) * 4096 + (bs[2] - 128) * 64 + (bs[3] - 128)
    ELSE (bs[1] - 240) * 262144 + (bs[2] - 128) * 4096 + (bs[3] - 128) * 64 + (bs[4] - 128)

\* bs is the shortest encoding of a code point that is no surrogate and
\* not beyond U+10FFFF
well_formed(bs) ==
    /\ \A i \in 2..Len(bs) : is_continuation(bs[i])
    /\ Len(bs) = 3 => (code_point(bs) >= 2048 /\ ~(code_point(bs) >= 55296 /\ code_point(bs) <= 57343))
    /\ Len(bs) = 4 => (code_point(bs) >= 65536 /\ code_point(bs) <= 1114111)

\* bytes.decode(): the str, or UnicodeDecodeError
RECURSIVE decode_from(_, _)
decode_from(bs, done) ==
    IF bs = <<>> THEN Ok(done)
    ELSE IF sequence_length(bs[1]) = 0 \/ sequence_length(bs[1]) > Len(bs)
    THEN Raise("UnicodeDecodeError")
    ELSE IF ~well_formed(SubSeq(bs, 1, sequence_length(bs[1])))
    THEN Raise("UnicodeDecodeError")
    ELSE decode_from(SubSeq(bs, sequence_length(bs[1]) + 1, Len(bs)),
                     Append(done, code_point(SubSeq(bs, 1, sequence_length(bs[1])))))

decode(bs) == decode_from(bs, <<>>)

\* byte ^ key byte
RECURSIVE xor(_, _)
xor(a, b) ==
    IF a = 0 /\ b = 0 THEN 0
    ELSE (((a % 2) + (b % 2)) % 2) + 2 * xor(a \div 2, b \div 2)

\* key * n
RECURSIVE repeat(_, _)
repeat(key, n) == IF n <= 0 THEN <<>> ELSE key \o repeat(key, n - 1)

hex_digits == <<"0", "1", "2", "3", "4", "5", "6", "7", "8", "9", "a", "b", "c", "d", "e", "f">>

\* bytearray.hex()
RECURSIVE hex(_)
hex(bs) ==
    IF bs = <<>> THEN <<>>
    ELSE <<hex_digits[(bs[1] \div 16) + 1], hex_digits[(bs[1] % 16) + 1]>> \o hex(Tail(bs))

hex_value(c) == (CHOOSE i \in DOMAIN hex_digits : hex_digits[i] = c) - 1

\* bytes.fromhex() of a string of hex digit pairs
RECURSIVE fromhex(_)
fromhex(s) ==
    IF s = <<>> THEN <<>>
    ELSE <<16 * hex_value(s[1]) + hex_value(s[2])>> \o fromhex(SubSeq(s, 3, Len(s)))

\* the loop 'byte ^ key_bytes[i]' over bs
xor_bytes(bs, key_bytes) == [i \in 1..Len(bs) |-> xor(bs[i], key_bytes[i])]

\* encrypt_sensitive_data: key_bytes is sized by len(data), the number of
\* characters, and indexed by the position in data.encode(); key_bytes[i]
\* past its end raises IndexError
encrypt_sensitive_data(data, key) ==
    IF Len(encode(data)) > Len(repeat(key, (Len(data) \div Len(key)) + 1))
    THEN Raise("IndexError")
    ELSE Ok(hex(xor_bytes(encode(data), repeat(key, (Len(data) \div Len(key)) + 1))))

\* decrypt_sensitive_data: key_bytes is sized by the encrypted bytes
decrypt_sensitive_data(encrypted_data, key) ==
    decode(xor_bytes(fromhex(encrypted_data),
                     repeat(key, (Len(fromhex(encrypted_data)) \div Len(key)) + 1)))

---------------------------------------------------------------------------
(* The inputs of the calls.                                                *)

MaxSleepHalves == 22        \* sleep_hours runs over -1, -0.5, ..., MaxSleepHalves / 2
MaxSurveyEntries == 2       \* entries of a survey over arbitrary keys and labels
MaxChunks == 3              \* pieces a text is put together from
PolarityDen == 1            \* the estimators return k / PolarityDen, |k| <= PolarityDen

Str(s) == [t |-> "str", s |-> s]

SleepNumbers == {Num(Lit(h, 2)) : h \in (-2)..MaxSleepHalves}
Levels == {"low", "moderate", "high", "extreme"}
BehaviorKeys == {"sleep_hours", "activity_level", "social_interaction", "work_stress"}

\* the dict with the keys K out of sleep_hours s and the three enum values
Profile(K, s, a, so, w) ==
    [k \in K |-> CASE k = "sleep_hours" -> s
                   [] k = "activity_level" -> a
                   [] k = "social_interaction" -> so
                   [] k = "work_stress" -> w]

\* every profile: any subset of the four keys, sleep_hours any number of
\* SleepNumbers or a non-number, the enums any of Levels
Profiles ==
    {Profile(K, s, a, so, w) : K \in SUBSET BehaviorKeys, s \in SleepNumbers \cup NonNumeric,
                               a \in Levels, so \in Levels, w \in Levels}

Questions == DOMAIN question_scores
SurveyKeys == Questions \cup {"favorite_color"}
AllLabels == UNION {DOMAIN question_scores[q] : q \in Questions} \cup {"meh"}

\* surveys of at most MaxSurveyEntries entries, any key with any label
SmallSurveys ==
    UNION {[K -> AllLabels] : K \in {S \in SUBSET SurveyKeys : Cardinality(S) <= MaxSurveyEntries}}

\* surveys that answer all five questions with a label of the question
FullSurveys ==
    {[q \in Questions |-> CASE q = "mood_today" -> a1
                            [] q = "energy_level" -> a2
                            [] q = "stress_level" -> a3
                            [] q = "sleep_quality" -> a4
                            [] q = "social_satisfaction" -> a5] :
        a1 \in DOMAIN question_scores["mood_today"],
        a2 \in DOMAIN question_scores["energy_level"],
        a3 \in DOMAIN question_scores["stress_level"],
        a4 \in DOMAIN question_scores["sleep_quality"],
        a5 \in DOMAIN question_scores["social_satisfaction"]}

Surveys == SmallSurveys \cup FullSurveys

Chunks ==
    {<<"g", "r", "e", "a", "t">>, <<"S", "a", "d">>, <<" ">>, <<"!">>, <<"#">>,
     <<"h", "t", "t", "p", ":", "/", "/">>}

\* the texts put together from exactly n chunks
RECURSIVE TextsOf(_)
TextsOf(n) ==
    IF n = 0 THEN {<<>>} ELSE {t \o c : t \in TextsOf(n - 1), c \in Chunks}

Texts == UNION {TextsOf(n) : n \in 0..MaxChunks}

\* what is passed as text: None, a number, or a str
TextValues ==
    {None, Num(Lit(5, 1)), Num(c0_0), Dict([mood_today |-> "good"])} \cup {Str(s) : s \in Texts}

\* what an estimator does when it is called
Polarities == {Lit(k, PolarityDen) : k \in (-PolarityDen)..PolarityDen}
EstimatorOutcomes == {Raise("Exception")} \cup {Ok(p) : p \in Polarities}

\* the estimators run only past the guard of calculate_text_sentiment, and
\* VADER only when the instance has an analyzer
TextBlobOutcomes(text) ==
    IF text.t = "str" /\ text.s # <<>> THEN EstimatorOutcomes ELSE {NotCalled}

VaderOutcomes(text) ==
    IF text.t = "str" /\ text.s # <<>> /\ vader_analyzer THEN EstimatorOutcomes
    ELSE {NotCalled}

\* the arguments of the fused call: each modality absent (None), empty or given
CombinedTexts ==
    {None, Num(Lit(5, 1)), Str(<<>>), Str(<<" ">>), Str(<<"g", "r", "e", "a", "t">>),
     Str(<<"S", "a", "d">>)}

CombinedProfiles ==
    {None} \cup
    {Dict(Profile(K, s, "high", "high", "low")) :
        K \in SUBSET BehaviorKeys, s \in {Num(Lit(5, 1)), [t |-> "str", s |-> "eight"]}}

CombinedSurveys ==
    {None} \cup
    {Dict(f) : f \in UNION {[K -> {"good", "very_high"}] :
                               K \in SUBSET {"mood_today", "stress_level"}}}

MaxRequestChunks == 2       \* pieces the text of a request is put together from
ScoreSteps == 20            \* scores run over k / ScoreSteps, -ScoreSteps <= k <= 2 * ScoreSteps

RequestChunks ==
    {<<"g", "r", "e", "a", "t">>, <<"D", "r", "o", "p">>, <<" ">>, <<"'">>, <<"#">>}

RECURSIVE RequestTextsOf(_)
RequestTextsOf(n) ==
    IF n = 0 THEN {<<>>} ELSE {t \o c : t \in RequestTextsOf(n - 1), c \in RequestChunks}

\* the value under each key of a request: JSON null, a number, a string or an
\* object; the strings hold no '=' and no '<'
RequestValues ==
    [text |-> {None, Num(Lit(5, 1))}
                \cup {Str(s) : s \in UNION {RequestTextsOf(n) : n \in 0..MaxRequestChunks}},
     activities |-> {None, Str(<<"g", "r", "e", "a", "t">>),
                     Dict([sleep_hours |-> Num(c8), activity_level |-> "high"]),
                     Dict([sleep_hours |-> [t |-> "str", s |-> "eight"]])},
     survey |-> {Dict(<<>>), Dict([mood_today |-> "good", stress_level |-> "very_high"])},
     note |-> {Str(<<"/", "*">>)}]

\* the key is left out
Missing == [t |-> "missing"]

\* the dict d with key f left out or given the value c
Vary(d, f, c) ==
    IF c = Missing THEN [g \in DOMAIN d \ {f} |-> d[g]]
    ELSE [g \in DOMAIN d \cup {f} |-> IF g = f THEN c ELSE d[g]]

\* the dicts of S, each with key k left out or given any of its values
WithKey(S, k) == {Vary(d, k, c) : d \in S, c \in RequestValues[k] \cup {Missing}}

\* the JSON objects sent: any of the four keys with any of its values
Requests == WithKey(WithKey(WithKey(WithKey({<<>>}, "text"), "activities"), "survey"), "note")

\* the text the handler passes to calculate_text_sentiment, None when it
\* passes none: the request is refused, or another branch is taken
text_scored(d) ==
    IF require_security_check /\ validate_input_security(d)
       /\ text_selected(sanitize_user_input(d))
    THEN sanitize_user_input(d)["text"]
    ELSE None

\* what the estimators do in a request that has its text scored
RequestOutcomes == {Raise("Exception"), Ok(FNeg(c1_0)), Ok(c0_5)}

RequestTextBlob(d) == IF text_scored(d) = None THEN {NotCalled} ELSE RequestOutcomes

RequestVader(d) ==
    IF text_scored(d) = None \/ ~vader_analyzer THEN {NotCalled} ELSE RequestOutcomes

\* the scores interpreted: the grid, and the values next to the boundaries
Scores ==
    {Lit(k, ScoreSteps) : k \in (-ScoreSteps)..(2 * ScoreSteps)}
        \cup {Lit(7, 10), Lit(3, 10), Lit(69999, 100000), Lit(30001, 100000)}

MaxVaried == 2              \* fields of a record that differ from the valid record

\* valid_data of test_valid_input_data
ValidRecord ==
    [Sentiment_Score |-> Num(c0_5), HRV |-> Num(Lit(70, 1)), Sleep_Hours |-> Num(c8),
     Activity |-> PyInt(5000), Age |-> PyInt(30),
     Gender |-> Str(<<"M", "a", "l", "e">>), Work_Study_Hours |-> Num(c8)]

\* "'; DROP TABLE predictions; --" of test_input_sanitization
InjectionText ==
    <<"'", ";", " ", "D", "R", "O", "P", " ", "T", "A", "B", "L", "E", " ",
      "p", "r", "e", "d", "i", "c", "t", "i", "o", "n", "s", ";", " ", "-", "-">>

\* what a numeric field is given in place of its valid value
NumericProbes ==
    {PyInt(-1), PyInt(0), PyInt(1), PyInt(121), PyInt(100001), BigInt,
     Num(Lit(-1, 2)), Num(Lit(-15, 10)), Num(Lit(-10, 1)), Num(Lit(61, 2)),
     NaN, Inf(1),
     Str(<<"0", ".", "5">>), Str(<<" ", "3", "0">>), Str(<<"n", "a", "n">>),
     Str(<<"a", "b", "c">>), Str(InjectionText), None}

GenderProbes == {Str(<<"F", "e", "m", "a", "l", "e">>), Str(<<"O", "t", "h", "e", "r">>), None}

Probes(field) == IF field = "Gender" THEN GenderProbes ELSE NumericProbes

\* the records that differ from the valid record in at most n fields
RECURSIVE VariedBy(_)
VariedBy(n) ==
    IF n = 0 THEN {ValidRecord}
    ELSE UNION {{Vary(d, f, c) : d \in VariedBy(n - 1), c \in Probes(f) \cup {Missing, ValidRecord[f]}} :
                   f \in DOMAIN ValidRecord}

ProbSteps == 10             \* the classifier's probabilities are multiples of 1 / ProbSteps

\* the rows predict_proba can return: three probabilities that add up to 1
ProbRows ==
    {(0 :> Lit(a, ProbSteps)) @@ (1 :> Lit(b, ProbSteps)) @@ (2 :> Lit(ProbSteps - a - b, ProbSteps)) :
        a \in 0..ProbSteps, b \in 0..ProbSteps}

\* what the scaler and the classifier do: they raise, or predict a class
\* with a row of probabilities
ModelOutcomes ==
    {Raise("ValueError")} \cup
    {Ok([prediction |-> k, probs |-> p]) :
        k \in 0..2, p \in {q \in ProbRows : FLe(c0_0, q[2])}}

\* the /predict requests: the valid record, and the valid record with one
\* field left out or replaced
PredictRequests ==
    UNION {{Vary(ValidRecord, f, c) : c \in Probes(f) \cup {Missing, ValidRecord[f]}} :
              f \in DOMAIN ValidRecord}

\* the scaler and the classifier are reached only with data that passes the
\* decorators and the validation
OutcomesFor(d) ==
    IF /\ validate_input_security(d)
       /\ validate_input_data(sanitize_user_input(d)).t # "raise"
    THEN ModelOutcomes
    ELSE {NotCalled}

\* the session the request comes with
Sessions == {<<>>, [session_id |-> "known"]}

\* the probabilities check_crisis_conditions is called with: the maps of the
\* rows, the same without 'Low', and 'Low' next to the threshold
CrisisProbabilities ==
    {prob_dict(p) : p \in {q \in ProbRows : FLe(c0_0, q[2])}}
        \cup {[label \in {"Moderate", "High"} |-> p[1]] : p \in {q \in ProbRows : FLe(c0_0, q[2])}}
        \cup {[Low |-> x] : x \in {Lit(8, 10), Lit(80001, 100000), Lit(79999, 100000), Lit(85, 100)}}
        \cup {<<>>}

Predictions == {"Low", "Moderate", "High", "low"}

\* the errors handle_error is called with, one after the other
Errors ==
    <<MentalHealthError("connection lost", None, None),
     MentalHealthError("connection lost", "E_CONN", Str("Please retry.")),
     MentalHealthError("connection lost", "E_CONN", Str("")),
     ValidationError("input_data", Dict(<<>>), <<[field |-> "HRV", kind |-> "negative", got |-> "-1.0"]>>),
     ModelError("model file not found"),
     CrisisDetectionError([text |-> "High confidence prediction of low mental health status detected.",
                           confidence |-> Lit(85, 100)]),
     [t |-> "raise", exc |-> "ZeroDivisionError", message |-> "division by zero"],
     [t |-> "raise", exc |-> "KeyError", message |-> "'Gender'"],
     [t |-> "raise", exc |-> "Exception", message |-> ""],
     Raise("OverflowError")>>

MaxExcess == 2              \* calls an address makes beyond RATE_LIMIT_PER_MINUTE
MaxOtherCalls == 1          \* calls or attempts the second address makes
MaxQuiet == 1               \* calls an address makes in the minutes other than its busiest
MaxTicks == 2               \* steps of the clock

\* the addresses of the clients
IPs == {"10.0.0.1", "10.0.0.2"}

\* the failed attempts an address may make in a run
CallCap(ip_address, most) == IF ip_address = "10.0.0.1" THEN most ELSE MaxOtherCalls

\* the calls on record for an address, over all windows
RECURSIVE SumOver(_, _)
SumOver(f, S) ==
    IF S = {} THEN 0
    ELSE SumOver(f, S \ {CHOOSE x \in S : TRUE}) + f[CHOOSE x \in S : TRUE]

TotalCalls(ip_address) == SumOver(table_of(calls, ip_address), DOMAIN table_of(calls, ip_address))

CallsIn(ip_address, w) == dict_get(table_of(calls, ip_address), w, 0)

\* the address may make one more call now: the first address stays within
\* MaxExcess calls beyond the limit of the minute, the second within its
\* cap, and only one minute of an address holds more than MaxQuiet calls
MayCall(ip_address) ==
    /\ CallsIn(ip_address, minute_window(now)) < RATE_LIMIT_PER_MINUTE + MaxExcess
    /\ ip_address # "10.0.0.1" => TotalCalls(ip_address) < MaxOtherCalls
    /\ \/ TotalCalls(ip_address) - CallsIn(ip_address, minute_window(now)) <= MaxQuiet
       \/ CallsIn(ip_address, minute_window(now)) < MaxQuiet

MaxDataLen == 3             \* characters of a string to encrypt
MaxKeyLen == 2              \* bytes of a key

\* a, e acute, the euro sign, an emoji: 1, 2, 3 and 4 bytes in UTF-8
CodePoints == {97, 233, 8364, 128512}

KeyBytes == {107, 255}

RECURSIVE SeqsUpTo(_, _)
SeqsUpTo(S, n) ==
    IF n = 0 THEN {<<>>}
    ELSE SeqsUpTo(S, n - 1) \cup {Append(s, x) : s \in SeqsUpTo(S, n - 1), x \in S}

---------------------------------------------------------------------------
(* The calls on the analyzer instance.                                     *)

\* __init__: VADER is there, or its set-up failed and vader_analyzer is None
Init ==
    /\ vader_analyzer \in BOOLEAN
    /\ pc = "idle"
    /\ op = "none"
    /\ text_input = None
    /\ activities_data = None
    /\ survey_responses = None
    /\ textblob_out = NotCalled
    /\ vader_out = NotCalled
    /\ request_json = None
    /\ score_input = None
    /\ input_data = None
    /\ args = None
    /\ model_out = NotCalled
    /\ session = None
    /\ now = 0
    /\ rate_limits = <<>>
    /\ failed_attempts = <<>>
    /\ blocked_ips = {}
    /\ calls = <<>>
    /\ logged = <<>>
    /\ ret = None

CalculateTextSentiment ==
    /\ pc = "idle"
    /\ \E text \in TextValues :
        \E tb \in TextBlobOutcomes(text), vd \in VaderOutcomes(text) :
            /\ text_input' = text
            /\ textblob_out' = tb
            /\ vader_out' = vd
            /\ ret' = calculate_text_sentiment(text, tb, vd, vader_analyzer)
    /\ op' = "calculate_text_sentiment"
    /\ pc' = "done"
    /\ UNCHANGED <<web, manager>>
    /\ UNCHANGED <<vader_analyzer, activities_data, survey_responses, request_json, score_input,
                   input_data>>

CalculateBehavioralSentiment ==
    /\ pc = "idle"
    /\ \E a \in Profiles :
            /\ activities_data' = Dict(a)
            /\ ret' = calculate_behavioral_sentiment(a)
    /\ op' = "calculate_behavioral_sentiment"
    /\ pc' = "done"
    /\ UNCHANGED <<web, manager>>
    /\ UNCHANGED <<vader_analyzer, text_input, survey_responses, textblob_out, vader_out,
                   request_json, score_input, input_data>>

CalculateSurveySentiment ==
    /\ pc = "idle"
    /\ \E s \in Surveys :
            /\ survey_responses' = Dict(s)
            /\ ret' = calculate_survey_sentiment(s)
    /\ op' = "calculate_survey_sentiment"
    /\ pc' = "done"
    /\ UNCHANGED <<web, manager>>
    /\ UNCHANGED <<vader_analyzer, text_input, activities_data, textblob_out, vader_out,
                   request_json, score_input, input_data>>

CalculateCombinedSentiment ==
    /\ pc = "idle"
    /\ \E text \in CombinedTexts, a \in CombinedProfiles, s \in CombinedSurveys :
        \E tb \in TextBlobOutcomes(text), vd \in VaderOutcomes(text) :
            /\ text_input' = text
            /\ activities_data' = a
            /\ survey_responses' = s
            /\ textblob_out' = tb
            /\ vader_out' = vd
            /\ ret' = calculate_combined_sentiment(text, a, s, tb, vd, vader_analyzer)
    /\ op' = "calculate_combined_sentiment"
    /\ pc' = "done"
    /\ UNCHANGED <<web, manager>>
    /\ UNCHANGED <<vader_analyzer, request_json, score_input, input_data>>

\* POST /calculate_sentiment with the JSON object d
CalculateSentiment ==
    /\ pc = "idle"
    /\ \E d \in Requests :
        \E tb \in RequestTextBlob(d), vd \in RequestVader(d) :
            /\ request_json' = Dict(d)
            /\ text_input' = text_scored(d)
            /\ textblob_out' = tb
            /\ vader_out' = vd
            /\ ret' \in calculate_sentiment(d, tb, vd, vader_analyzer)
    /\ op' = "calculate_sentiment"
    /\ pc' = "done"
    /\ UNCHANGED <<web, manager>>
    /\ UNCHANGED <<vader_analyzer, activities_data, survey_responses, score_input,
                   input_data>>

GetSentimentInterpretation ==
    /\ pc = "idle"
    /\ \E x \in Scores :
            /\ score_input' = Num(x)
            /\ ret' = Ok(get_sentiment_interpretation(x))
    /\ op' = "get_sentiment_interpretation"
    /\ pc' = "done"
    /\ UNCHANGED <<web, manager>>
    /\ UNCHANGED <<vader_analyzer, text_input, activities_data, survey_responses,
                   textblob_out, vader_out, request_json, input_data>>

\* the caller takes the result; the analyzer keeps nothing of the call, the
\* security manager keeps its tables
Return ==
    /\ pc = "done"
    /\ pc' = "idle"
    /\ op' = "none"
    /\ text_input' = None
    /\ activities_data' = None
    /\ survey_responses' = None
    /\ textblob_out' = NotCalled
    /\ vader_out' = NotCalled
    /\ request_json' = None
    /\ score_input' = None
    /\ input_data' = None
    /\ args' = None
    /\ model_out' = NotCalled
    /\ session' = None
    /\ ret' = None
    /\ UNCHANGED <<vader_analyzer, manager>>

Next ==
    \/ CalculateTextSentiment
    \/ CalculateBehavioralSentiment
    \/ CalculateSurveySentiment
    \/ CalculateCombinedSentiment
    \/ Return

Spec == Init /\ [][Next]_vars

ValidateInputData ==
    /\ pc = "idle"
    /\ \E d \in VariedBy(MaxVaried) :
            /\ input_data' = Dict(d)
            /\ ret' = validate_input_data(d)
    /\ op' = "validate_input_data"
    /\ pc' = "done"
    /\ UNCHANGED <<web, manager>>
    /\ UNCHANGED <<vader_analyzer, text_input, activities_data, survey_responses,
                   textblob_out, vader_out, request_json, score_input>>

\* POST /predict with the JSON object d from a client with session s, the
\* scaler and the classifier doing out when they are reached
Predict ==
    /\ pc = "idle"
    /\ \E d \in PredictRequests, s \in Sessions :
        \E out \in OutcomesFor(d) :
            \E r \in {predict(d, s, out)} :
                /\ request_json' = Dict(d)
                /\ args' = [session |-> s]
                /\ ret' = r.ret
                /\ model_out' = r.model_out
                /\ session' = r.session
    /\ op' = "predict"
    /\ pc' = "done"
    /\ UNCHANGED manager
    /\ UNCHANGED <<vader_analyzer, text_input, activities_data, survey_responses,
                   textblob_out, vader_out, score_input, input_data>>

CheckCrisisConditions ==
    /\ pc = "idle"
    /\ \E prediction \in Predictions, probabilities \in CrisisProbabilities :
            /\ args' = [prediction |-> prediction, probabilities |-> probabilities]
            /\ ret' = check_crisis_conditions(prediction, probabilities)
    /\ op' = "check_crisis_conditions"
    /\ pc' = "done"
    /\ UNCHANGED <<model_out, session, manager>>
    /\ UNCHANGED <<vader_analyzer, text_input, activities_data, survey_responses,
                   textblob_out, vader_out, request_json, score_input, input_data>>

HandleError ==
    /\ pc = "idle"
    /\ \E i \in DOMAIN Errors :
            /\ args' = [error |-> Errors[i]]
            /\ ret' = handle_error(Errors[i])
    /\ op' = "handle_error"
    /\ pc' = "done"
    /\ UNCHANGED <<model_out, session, manager>>
    /\ UNCHANGED <<vader_analyzer, text_input, activities_data, survey_responses,
                   textblob_out, vader_out, request_json, score_input, input_data>>

\* the /predict route and the helpers of src/error_handling.py it uses
PredictionNext ==
    \/ Predict
    \/ CheckCrisisConditions
    \/ HandleError
    \/ Return

PredictionSpec == Init /\ [][PredictionNext]_vars

\* time passes between two calls
Tick(seconds) ==
    /\ pc = "idle"
    /\ now + seconds <= seconds * MaxTicks
    /\ now' = now + seconds
    /\ UNCHANGED <<rate_limits, failed_attempts, blocked_ips, calls, logged, web>>
    /\ UNCHANGED <<vader_analyzer, pc, op, text_input, activities_data, survey_responses,
                   textblob_out, vader_out, request_json, score_input, input_data, ret>>

\* security_manager.check_rate_limit(ip) on the one manager
CheckRateLimit ==
    /\ pc = "idle"
    /\ \E ip \in IPs :
            /\ MayCall(ip)
            /\ args' = [ip_address |-> ip]
            /\ rate_limits' = check_rate_limit(rate_limits, ip, now).rate_limits
            /\ ret' = check_rate_limit(rate_limits, ip, now).ret
            /\ calls' = with_entry(calls, ip, counted(table_of(calls, ip), minute_window(now)))
    /\ op' = "check_rate_limit"
    /\ pc' = "done"
    /\ UNCHANGED <<now, failed_attempts, blocked_ips, logged, model_out, session>>
    /\ UNCHANGED <<vader_analyzer, text_input, activities_data, survey_responses,
                   textblob_out, vader_out, request_json, score_input, input_data>>

\* calls of check_rate_limit on one SecurityManager, the clock moving in
\* steps of 70 seconds
RateLimitNext ==
    \/ CheckRateLimit
    \/ Tick(70)
    \/ Return

RateLimitSpec == Init /\ [][RateLimitNext]_vars

\* security_manager.log_failed_attempt(ip, reason) on the one manager
LogFailedAttempt ==
    /\ pc = "idle"
    /\ \E ip \in IPs :
            /\ Len(table_of(logged, ip)) < CallCap(ip, 10 + MaxExcess)
            /\ args' = [ip_address |-> ip]
            /\ failed_attempts' = log_failed_attempt(failed_attempts, ip, now)
            /\ logged' = with_entry(logged, ip, Append(table_of(logged, ip), now))
    /\ ret' = None
    /\ op' = "log_failed_attempt"
    /\ pc' = "done"
    /\ UNCHANGED <<now, rate_limits, blocked_ips, calls, model_out, session>>
    /\ UNCHANGED <<vader_analyzer, text_input, activities_data, survey_responses,
                   textblob_out, vader_out, request_json, score_input, input_data>>

\* security_manager.check_failed_attempts(ip) on the one manager
CheckFailedAttempts ==
    /\ pc = "idle"
    /\ \E ip \in IPs :
            /\ args' = [ip_address |-> ip]
            /\ failed_attempts' =
                   check_failed_attempts(failed_attempts, blocked_ips, ip, now).failed_attempts
            /\ blocked_ips' =
                   check_failed_attempts(failed_attempts, blocked_ips, ip, now).blocked_ips
            /\ ret' = check_failed_attempts(failed_attempts, blocked_ips, ip, now).ret
    /\ op' = "check_failed_attempts"
    /\ pc' = "done"
    /\ UNCHANGED <<now, rate_limits, calls, logged, model_out, session>>
    /\ UNCHANGED <<vader_analyzer, text_input, activities_data, survey_responses,
                   textblob_out, vader_out, request_json, score_input, input_data>>

\* calls of log_failed_attempt and check_failed_attempts on one
\* SecurityManager, the clock moving in steps of half an hour
FailedAttemptsNext ==
    \/ LogFailedAttempt
    \/ CheckFailedAttempts
    \/ Tick(1800)
    \/ Return

FailedAttemptsSpec == Init /\ [][FailedAttemptsNext]_vars

\* a request from the address ip to an endpoint wrapped with
\* require_security_check: the wrapper makes its own SecurityManager, which is
\* dropped with the request
SecurityCheckedRequest ==
    /\ pc = "idle"
    /\ \E ip \in IPs :
            /\ MayCall(ip)
            /\ args' = [ip_address |-> ip]
            /\ ret' = decorated_function(ip, now)
            /\ calls' = with_entry(calls, ip, counted(table_of(calls, ip), minute_window(now)))
    /\ op' = "require_security_check"
    /\ pc' = "done"
    /\ UNCHANGED <<now, rate_limits, failed_attempts, blocked_ips, logged, model_out, session>>
    /\ UNCHANGED <<vader_analyzer, text_input, activities_data, survey_responses,
                   textblob_out, vader_out, request_json, score_input, input_data>>

\* requests to a wrapped endpoint, the clock moving in steps of 70 seconds
GatewayNext ==
    \/ SecurityCheckedRequest
    \/ Tick(70)
    \/ Return

GatewaySpec == Init /\ [][GatewayNext]_vars

\* DataEncryption.encrypt_sensitive_data(data, key)
EncryptSensitiveData ==
    /\ pc = "idle"
    /\ \E data \in SeqsUpTo(CodePoints, MaxDataLen), key \in SeqsUpTo(KeyBytes, MaxKeyLen) \ {<<>>} :
            /\ args' = [data |-> data, key |-> key]
            /\ ret' = encrypt_sensitive_data(data, key)
    /\ op' = "encrypt_sensitive_data"
    /\ pc' = "done"
    /\ UNCHANGED <<model_out, session, manager>>
    /\ UNCHANGED <<vader_analyzer, text_input, activities_data, survey_responses,
                   textblob_out, vader_out, request_json, score_input, input_data>>

\* DataEncryption.decrypt_sensitive_data on what encrypt_sensitive_data
\* returned, with the same key
DecryptSensitiveData ==
    /\ pc = "done"
    /\ op = "encrypt_sensitive_data"
    /\ ret.t = "ok"
    /\ args' = [data |-> args.data, key |-> args.key, encrypted_data |-> ret.v]
    /\ ret' = decrypt_sensitive_data(ret.v, args.key)
    /\ op' = "decrypt_sensitive_data"
    /\ UNCHANGED <<pc, model_out, session, manager>>
    /\ UNCHANGED <<vader_analyzer, text_input, activities_data, survey_responses,
                   textblob_out, vader_out, request_json, score_input, input_data>>

EncryptionNext ==
    \/ EncryptSensitiveData
    \/ DecryptSensitiveData
    \/ Return

EncryptionSpec == Init /\ [][EncryptionNext]_vars

\* the requests to the web application
AppNext ==
    \/ CalculateSentiment
    \/ GetSentimentInterpretation
    \/ Return

AppSpec == Init /\ [][AppNext]_vars

\* the calls of the input validation
ValidationNext ==
    \/ ValidateInputData
    \/ Return

ValidationSpec == Init /\ [][ValidationNext]_vars

---------------------------------------------------------------------------
(* Properties of the behavioral scorer.                                    *)

BehavioralDone == pc = "done" /\ op = "calculate_behavioral_sentiment"
SurveyDone == pc = "done" /\ op = "calculate_survey_sentiment"
CombinedDone == pc = "done" /\ op = "calculate_combined_sentiment"

\* sleep_hours of profile d is absent or a number
SleepUsable(d) == "sleep_hours" \in DOMAIN d => d["sleep_hours"].t = "num"

\* the stated sleep rule: "good", "poor" or "dead zone" for h hours
StatedSleepBand(h) ==
    IF FCmp(h, c7) >= 0 /\ FCmp(h, c9) <= 0 THEN "good"
    ELSE IF FCmp(h, c6) < 0 \/ FCmp(h, c10) > 0 THEN "poor"
    ELSE "dead zone"

StatedSleepAdj(h) ==
    CASE StatedSleepBand(h) = "good" -> c0_1
      [] StatedSleepBand(h) = "poor" -> FNeg(c0_1)
      [] OTHER -> c0_0

\* the stated adjustment of an enum key: lo, 0, hi for low, moderate, high and
\* 0 for anything else or a missing key
StatedLevelAdj(d, key, lo, hi) ==
    IF key \notin DOMAIN d THEN c0_0
    ELSE CASE d[key] = "low" -> lo
           [] d[key] = "high" -> hi
           [] OTHER -> c0_0

StatedClamp(x) == IF FCmp(x, c0_0) < 0 THEN c0_0 ELSE IF FCmp(x, c1_0) > 0 THEN c1_0 ELSE x

\* the stated score of profile d: 0.5 + sleep + activity + social + stress,
\* clamped
StatedBehaviorScore(d) ==
    StatedClamp(
        FAdd(FAdd(FAdd(FAdd(c0_5,
                            StatedSleepAdj(IF "sleep_hours" \in DOMAIN d
                                           THEN d["sleep_hours"].v ELSE c8)),
                       StatedLevelAdj(d, "activity_level", FNeg(c0_1), c0_1)),
                  StatedLevelAdj(d, "social_interaction", FNeg(c0_15), c0_15)),
             StatedLevelAdj(d, "work_stress", c0_1, FNeg(c0_15))))

TestProfile ==
    [sleep_hours |-> Num(c8), activity_level |-> "high",
     social_interaction |-> "high", work_stress |-> "low"]

\* the doubles of the decimal numbers the statements name
d0_95 == Lit(95, 100)
d0_7 == Lit(7, 10)
d0_6 == Lit(6, 10)
d0_4 == Lit(4, 10)
d0_001 == Lit(1, 1000)
d0_89 == Lit(89, 100)
d0_9 == Lit(9, 10)
d5 == Lit(5, 1)
d6_5 == Lit(13, 2)

\* C1: for every profile with a numeric (or missing) sleep_hours the behavioral
\* score is clamp_[0,1](0.5 + sleep + activity + social + stress adjustment) with
\* activity -0.1/0/+0.1, social -0.15/0/+0.15, work stress +0.1/0/-0.15 for
\* low/moderate/high; the profile of the module's own test scores exactly 0.95.
C1_BehavioralFormula ==
    (BehavioralDone /\ SleepUsable(activities_data.d)) =>
        /\ ret = Ok(StatedBehaviorScore(activities_data.d))
        /\ activities_data.d = TestProfile => ret = Ok(d0_95)

C1_Witness == BehavioralDone /\ activities_data.d = TestProfile /\ ret = Ok(d0_95)

\* C2: the sleep adjustment is +0.1 exactly for 7 <= sleep_hours <= 9, -0.1
\* exactly for sleep_hours < 6 or > 10, and 0 otherwise, 6 and 10 included: a
\* profile scores as it does with 8 hours in the first band, with 5 hours in
\* the second and with 6.5 hours in the third, and with sleep_hours its only
\* key it scores 0.6, 0.4 and 0.5 there.
C2_SleepDeadZone ==
    (BehavioralDone /\ "sleep_hours" \in DOMAIN activities_data.d
                    /\ activities_data.d["sleep_hours"].t = "num") =>
        LET d == activities_data.d
            band == StatedSleepBand(d["sleep_hours"].v)
            hours == CASE band = "good" -> c8 [] band = "poor" -> d5 [] OTHER -> d6_5
            alone == CASE band = "good" -> d0_6 [] band = "poor" -> d0_4 [] OTHER -> c0_5
        IN  /\ ret = calculate_behavioral_sentiment([d EXCEPT !["sleep_hours"] = Num(hours)])
            /\ DOMAIN d = {"sleep_hours"} => ret = Ok(alone)

C2_Witness ==
    /\ BehavioralDone
    /\ activities_data.d = [sleep_hours |-> Num(c10)]
    /\ ret = Ok(c0_5)

\* C3 as stated: a profile with none of the four keys scores 0.5.
C3_EmptyProfileIsHalf ==
    (BehavioralDone /\ DOMAIN activities_data.d = {}) => ret = Ok(c0_5)

\* C3 as amended: a profile with none of the four keys scores 0.6, the base 0.5
\* plus the +0.1 of the default sleep_hours of 8.
C3_EmptyProfileIsSixTenths ==
    (BehavioralDone /\ DOMAIN activities_data.d = {}) => ret = Ok(d0_6)

C3_Witness == BehavioralDone /\ DOMAIN activities_data.d = {} /\ ret.t = "ok"

\* profile d with every missing key set to its stated default and every enum
\* value outside low/moderate/high set to moderate
WithStatedDefaults(d) ==
    [k \in BehaviorKeys |->
        IF k = "sleep_hours"
        THEN (IF k \in DOMAIN d THEN d[k] ELSE Num(c8))
        ELSE (IF k \in DOMAIN d /\ d[k] \in {"low", "moderate", "high"} THEN d[k]
              ELSE "moderate")]

\* C4: a missing key behaves as its default (sleep_hours 8, the enums moderate)
\* and an enum value outside low/moderate/high as moderate: the call gives what
\* it gives on the profile with those values written out.
C4_DefaultsAndUnknownLevels ==
    BehavioralDone =>
        ret = calculate_behavioral_sentiment(WithStatedDefaults(activities_data.d))

C4_Witness ==
    /\ BehavioralDone
    /\ activities_data.d = [activity_level |-> "extreme", work_stress |-> "low"]
    /\ ret = Ok(d0_7)

\* C5: for every profile whose sleep_hours is a number or missing, whatever the
\* enum values (recognized, unrecognized, missing), the call returns a score in
\* [0, 1].
C5_BehavioralInRange ==
    (BehavioralDone /\ SleepUsable(activities_data.d)) =>
        /\ ret.t = "ok"
        /\ FCmp(c0_0, ret.v) <= 0 /\ FCmp(ret.v, c1_0) <= 0

\* the lowest score there is, every adjustment negative: 0.5 - 0.1 - 0.1 - 0.15
\* - 0.15, which in doubles is a little above 0
C5_Witness ==
    /\ BehavioralDone
    /\ activities_data.d = [sleep_hours |-> Num(d5), activity_level |-> "low",
                            social_interaction |-> "low", work_stress |-> "high"]
    /\ ret.t = "ok"
    /\ FCmp(ret.v, d0_001) < 0

---------------------------------------------------------------------------
(* Properties of the survey scorer.                                        *)

\* the place of a in seq, counted from 0; -1 when a is not in seq
PlaceIn(a, seq) ==
    IF \E i \in 1..Len(seq) : seq[i] = a
    THEN (CHOOSE i \in 1..Len(seq) : seq[i] = a) - 1
    ELSE -1

\* the stated value of label a on question q in quarters; -1 when q is no
\* question or a no label of q
StatedQuarters(q, a) ==
    CASE q \in {"mood_today", "sleep_quality"} ->
            PlaceIn(a, <<"very_poor", "poor", "fair", "good", "excellent">>)
      [] q = "energy_level" ->
            PlaceIn(a, <<"very_low", "low", "moderate", "high", "very_high">>)
      [] q = "stress_level" ->
            PlaceIn(a, <<"very_high", "high", "moderate", "low", "very_low">>)
      [] q = "social_satisfaction" ->
            PlaceIn(a, <<"very_dissatisfied", "dissatisfied", "neutral", "satisfied",
                         "very_satisfied">>)
      [] OTHER -> -1

Recognized(d) == {q \in DOMAIN d : StatedQuarters(q, d[q]) >= 0}

RECURSIVE QuarterSum(_, _)
QuarterSum(d, qs) ==
    IF qs = {} THEN 0
    ELSE LET q == CHOOSE x \in qs : TRUE
         IN  StatedQuarters(q, d[q]) + QuarterSum(d, qs \ {q})

TestSurvey ==
    [mood_today |-> "good", energy_level |-> "high", stress_level |-> "low",
     sleep_quality |-> "good", social_satisfaction |-> "satisfied"]

\* C6: the survey score is the mean of the table values (0, 0.25, 0.5, 0.75, 1.0,
\* stress_level inverted) of the recognized (question, label) pairs, 0.5 when
\* there is none; the survey of the module's own test scores 0.75.
C6_SurveyMean ==
    SurveyDone =>
        LET d == survey_responses.d
            k == Cardinality(Recognized(d))
        IN  /\ k > 0 => ret = Ok(FDiv(Lit(QuarterSum(d, Recognized(d)), 4), Lit(k, 1)))
            /\ k = 0 => ret = Ok(c0_5)
            /\ d = TestSurvey => ret = Ok(c0_75)

C6_Witness == SurveyDone /\ survey_responses.d = TestSurvey /\ ret = Ok(c0_75)

\* C7: an entry with an unrecognized key, or with a label that is none of its
\* question's, changes nothing: the call returns, and returns what it returns on
\* the survey without that entry.
C7_UnrecognizedIgnored ==
    SurveyDone =>
        LET d == survey_responses.d
        IN  \A q \in DOMAIN d \ Recognized(d) :
                /\ ret.t = "ok"
                /\ ret = calculate_survey_sentiment([x \in DOMAIN d \ {q} |-> d[x]])

\* a recognized answer beside a label of another question's table
C7_Witness ==
    /\ SurveyDone
    /\ survey_responses.d = [mood_today |-> "good", stress_level |-> "poor"]
    /\ ret = Ok(c0_75)

\* C8: every survey scores within [0, 1], and one without a recognized pair
\* scores exactly 0.5.
C8_SurveyInRange ==
    SurveyDone =>
        /\ ret.t = "ok"
        /\ FCmp(c0_0, ret.v) <= 0 /\ FCmp(ret.v, c1_0) <= 0
        /\ Recognized(survey_responses.d) = {} => ret = Ok(c0_5)

\* entries, but none recognized
C8_Witness ==
    /\ SurveyDone
    /\ survey_responses.d = [favorite_color |-> "good", energy_level |-> "excellent"]
    /\ ret = Ok(c0_5)

---------------------------------------------------------------------------
(* Properties of the fusion.                                               *)

\* a modality is supplied: neither None nor empty
Supplied(v) == v # None /\ v # Str(<<>>) /\ v # Dict(<<>>)

\* the activities of the call, when supplied, have a usable sleep_hours
ActivitiesUsable == Supplied(activities_data) => SleepUsable(activities_data.d)

\* the scores of the three modalities of the call on [0, 1], by their scorers
TextScore01 ==
    FDiv(FAdd(calculate_text_sentiment(text_input, textblob_out, vader_out,
                                       vader_analyzer).v, c1_0), c2)
BehaviorScore01 == calculate_behavioral_sentiment(activities_data.d).v
SurveyScore01 == calculate_survey_sentiment(survey_responses.d).v

\* <<score, weight>> of each supplied modality of the call, with the stated
\* weights 0.4, 0.3, 0.3
StatedTerms ==
    (IF Supplied(text_input) THEN <<<<TextScore01, c0_4>>>> ELSE <<>>)
    \o (IF Supplied(activities_data) THEN <<<<BehaviorScore01, c0_3>>>> ELSE <<>>)
    \o (IF Supplied(survey_responses) THEN <<<<SurveyScore01, c0_3>>>> ELSE <<>>)

\* C9: the fused score is sum(score * weight) / sum(weight) over the supplied
\* modalities only, with weights 0.4 (text, its score s taken as (s+1)/2), 0.3
\* (activities) and 0.3 (survey), and lies in [0, 1].
C9_WeightedAverage ==
    (CombinedDone /\ ActivitiesUsable) =>
        LET terms == StatedTerms
        IN  /\ ret.t = "ok"
            /\ terms # <<>> =>
                ret.v = FDiv(FSum([i \in 1..Len(terms) |-> FMul(terms[i][1], terms[i][2])]),
                             FSum([i \in 1..Len(terms) |-> terms[i][2]]))
            /\ FCmp(c0_0, ret.v) <= 0 /\ FCmp(ret.v, c1_0) <= 0

\* text and survey supplied, activities absent: (0.4 * 1 + 0.3 * 0.75) / 0.7,
\* about 0.893
C9_Witness ==
    /\ CombinedDone
    /\ text_input = Str(<<"g", "r", "e", "a", "t">>)
    /\ textblob_out = Ok(c1_0)
    /\ vader_out = Ok(c1_0)
    /\ activities_data = None
    /\ survey_responses = Dict([mood_today |-> "good"])
    /\ ret.t = "ok"
    /\ FCmp(d0_89, ret.v) < 0 /\ FCmp(ret.v, d0_9) < 0

\* the call has exactly this one modality supplied
OnlyText == Supplied(text_input) /\ ~Supplied(activities_data) /\ ~Supplied(survey_responses)
OnlyActivities ==
    ~Supplied(text_input) /\ Supplied(activities_data) /\ ~Supplied(survey_responses)
OnlySurvey == ~Supplied(text_input) /\ ~Supplied(activities_data) /\ Supplied(survey_responses)

\* C10 as stated: with exactly one modality supplied the fused score equals that
\* modality's own score on [0, 1]: (text score + 1) / 2, the behavioral score,
\* the survey score.
C10_SingleModalityExact ==
    (CombinedDone /\ ActivitiesUsable) =>
        /\ OnlyText => ret = Ok(TextScore01)
        /\ OnlyActivities => ret = Ok(BehaviorScore01)
        /\ OnlySurvey => ret = Ok(SurveyScore01)

\* 2^-50, about 8.9e-16
RoundingBound == FMul(Lit(1, 2 ^ 25), Lit(1, 2 ^ 25))

\* a and b differ by at most RoundingBound
Close(a, b) ==
    LET diff == FSub(a, b)
    IN  FCmp(IF diff.s < 0 THEN FNeg(diff) ELSE diff, RoundingBound) <= 0

\* C10 as amended: with exactly one modality supplied the fused score equals that
\* modality's own score on [0, 1] up to the rounding of score * weight / weight:
\* the two differ by at most 2^-50 (and activities whose own scoring raises make
\* the fused call raise the same).
C10_SingleModalityClose ==
    CombinedDone =>
        /\ OnlyText => ret.t = "ok" /\ Close(ret.v, TextScore01)
        /\ OnlyActivities =>
                IF SleepUsable(activities_data.d)
                THEN ret.t = "ok" /\ Close(ret.v, BehaviorScore01)
                ELSE ret = calculate_behavioral_sentiment(activities_data.d)
        /\ OnlySurvey => ret.t = "ok" /\ Close(ret.v, SurveyScore01)

\* activities alone, and the fused score is not the behavioral score
C10_Witness ==
    /\ CombinedDone
    /\ OnlyActivities
    /\ ActivitiesUsable
    /\ ret.t = "ok"
    /\ ret.v # BehaviorScore01

\* C11: the fused call with no modality supplied (each argument None or empty)
\* returns exactly 0.5 and does not raise.
C11_NothingSuppliedIsHalf ==
    (CombinedDone /\ ~Supplied(text_input) /\ ~Supplied(activities_data)
                  /\ ~Supplied(survey_responses)) =>
        ret = Ok(c0_5)

\* an empty str, an empty dict and None
C11_Witness ==
    /\ CombinedDone
    /\ text_input = Str(<<>>)
    /\ activities_data = Dict(<<>>)
    /\ survey_responses = None
    /\ ret = Ok(c0_5)

TextDone == pc = "done" /\ op = "calculate_text_sentiment"

\* the text is a str with at least one character
TextUsable == text_input.t = "str" /\ text_input.s # <<>>

\* C14: calculate_text_sentiment returns exactly 0.0, without raising and
\* without consulting an estimator, when text is None, '' or not a str.
C14_NoTextIsZero ==
    (TextDone /\ ~TextUsable) => ret = Ok(c0_0)

\* a number, which is truthy and not a str
C14_Witness ==
    /\ TextDone
    /\ text_input = Num(Lit(5, 1))
    /\ ret = Ok(c0_0)

TextBlobSucceeded == textblob_out.t = "ok"
VaderSucceeded == vader_analyzer /\ vader_out.t = "ok"

\* the heuristic's score of the text in hand
KeywordScore == keyword_based_sentiment(clean_text(text_input.s))

\* the sum ((polarity + compound) + keyword) over the estimators that succeeded
StatedSubScoreSum ==
    CASE TextBlobSucceeded /\ VaderSucceeded ->
            FAdd(FAdd(textblob_out.v, vader_out.v), KeywordScore)
      [] TextBlobSucceeded /\ ~VaderSucceeded -> FAdd(textblob_out.v, KeywordScore)
      [] ~TextBlobSucceeded /\ VaderSucceeded -> FAdd(vader_out.v, KeywordScore)
      [] OTHER -> KeywordScore

StatedSubScoreCount ==
    1 + (IF TextBlobSucceeded THEN 1 ELSE 0) + (IF VaderSucceeded THEN 1 ELSE 0)

StatedClamp11(x) ==
    IF FLt(x, FNeg(c1_0)) THEN FNeg(c1_0) ELSE IF FLt(c1_0, x) THEN c1_0 ELSE x

\* C15: for a non-empty str the text score is the mean of the sub-scores that
\* succeeded, clamped to [-1, 1]; an estimator that raises, or VADER being
\* unavailable, only leaves its score out, and the call returns normally.
C15_MeanOfSucceeded ==
    (TextDone /\ TextUsable) =>
        ret = Ok(StatedClamp11(FDiv(StatedSubScoreSum, FromInt(StatedSubScoreCount))))

\* TextBlob raised, VADER gave 1.0, the heuristic gave 1.0: the mean of two
C15_Witness ==
    /\ TextDone
    /\ text_input = Str(<<"g", "r", "e", "a", "t">>)
    /\ textblob_out.t = "raise"
    /\ vader_analyzer /\ vader_out = Ok(c1_0)
    /\ ret = Ok(c1_0)

\* C16: whatever the text and whatever the estimators do (a polarity in
\* [-1, 1] or an exception each), calculate_text_sentiment returns a number
\* in [-1, 1].
C16_TextInRange ==
    TextDone => (ret.t = "ok" /\ FLe(FNeg(c1_0), ret.v) /\ FLe(ret.v, c1_0))

\* all three sub-scores at the lower end
C16_Witness ==
    /\ TextDone
    /\ TextUsable
    /\ TextBlobSucceeded /\ VaderSucceeded
    /\ textblob_out.v = FNeg(c1_0) /\ vader_out.v = FNeg(c1_0)
    /\ ret = Ok(FNeg(c1_0))

\* the tokens of s as index pairs: the maximal runs without whitespace
TokenRuns(s) ==
    {r \in (1..Len(s)) \X (1..Len(s)) :
        /\ r[1] <= r[2]
        /\ \A k \in r[1]..r[2] : ~is_space(s[k])
        /\ (r[1] = 1 \/ is_space(s[r[1] - 1]))
        /\ (r[2] = Len(s) \/ is_space(s[r[2] + 1]))}

ListedTokens(s, word_list) ==
    Cardinality({r \in TokenRuns(s) : SubSeq(s, r[1], r[2]) \in word_list})

StatedKeywordScore(pos, neg) ==
    IF pos + neg = 0 THEN c0_0 ELSE FDiv(FromInt(pos - neg), FromInt(pos + neg))

\* the heuristic alone decides the result: neither estimator gave a score
OnlyKeyword == TextDone /\ TextUsable /\ ~TextBlobSucceeded /\ ~VaderSucceeded

\* C17: the keyword heuristic counts the whitespace-separated tokens of the
\* cleaned text that equal a positive word (pos) or a negative word (neg) and
\* gives (pos - neg) / (pos + neg), or 0.0 when pos + neg = 0; the result is
\* in [-1, 1].
C17_KeywordHeuristic ==
    OnlyKeyword =>
        /\ ret = Ok(StatedKeywordScore(ListedTokens(clean_text(text_input.s), positive_words),
                                       ListedTokens(clean_text(text_input.s), negative_words)))
        /\ FLe(FNeg(c1_0), ret.v) /\ FLe(ret.v, c1_0)

\* 'great!' keeps its '!' through the cleaning and is not counted
C17_Witness ==
    /\ OnlyKeyword
    /\ text_input = Str(<<"g", "r", "e", "a", "t", "!">>)
    /\ ret = Ok(c0_0)

ScorerDone == pc = "done"

\* C18: no input makes a scorer raise; each call returns a number in the
\* scorer's range ([-1, 1] for text, [0, 1] for the others).
C18_NoScorerRaises ==
    ScorerDone =>
        /\ ret.t = "ok"
        /\ FLe(IF TextDone THEN FNeg(c1_0) ELSE c0_0, ret.v)
        /\ FLe(ret.v, c1_0)

InterpretationDone == pc = "done" /\ op = "get_sentiment_interpretation"

d0_3 == Lit(3, 10)

StatedColor(level) ==
    CASE level = "positive" -> "green"
      [] level = "negative" -> "red"
      [] level = "neutral" -> "blue"

\* C12: get_sentiment_interpretation returns for every score: level positive
\* (green) exactly when score >= 0.7, negative (red) exactly when score <= 0.3,
\* neutral (blue) exactly when 0.3 < score < 0.7; 0.7 is positive, 0.69999
\* neutral, 0.3 negative and 0.30001 neutral.
C12_InterpretationBoundaries ==
    InterpretationDone =>
        /\ ret.t = "ok"
        /\ ret.v.level \in {"positive", "negative", "neutral"}
        /\ ret.v.level = "positive" <=> FLe(d0_7, score_input.v)
        /\ ret.v.level = "negative" <=> FLe(score_input.v, d0_3)
        /\ ret.v.level = "neutral" <=> (FLt(d0_3, score_input.v) /\ FLt(score_input.v, d0_7))
        /\ ret.v.color = StatedColor(ret.v.level)
        /\ score_input.v = Lit(7, 10) => ret.v.level = "positive"
        /\ score_input.v = Lit(69999, 100000) => ret.v.level = "neutral"
        /\ score_input.v = Lit(3, 10) => ret.v.level = "negative"
        /\ score_input.v = Lit(30001, 100000) => ret.v.level = "neutral"

\* the boundary 0.7 itself
C12_Witness ==
    /\ InterpretationDone
    /\ score_input = Num(Lit(7, 10))
    /\ ret.v.level = "positive"
    /\ ret.v.color = "green"

HandlerDone == pc = "done" /\ op = "calculate_sentiment"

\* the handler answered with a score
Scored == HandlerDone /\ ret.t = "response" /\ ret.status = 200

\* the method by the keys present, text first
MethodByKey(d) ==
    IF "text" \in DOMAIN d THEN "text_analysis"
    ELSE IF "activities" \in DOMAIN d THEN "behavioral_analysis"
    ELSE IF "survey" \in DOMAIN d THEN "survey_analysis"
    ELSE "combined_analysis"

Blank(s) == \A i \in 1..Len(s) : s[i] \in {" ", "\t", "\n", "\r", "<", ">", "\"", "'"}

\* a text that counts: a str that is not blank
TextCounts(d) == "text" \in DOMAIN d /\ d["text"].t = "str" /\ ~Blank(d["text"].s)

\* the method by the keys present, the text key counting only with such a text
StatedMethod(d) ==
    IF TextCounts(d) THEN "text_analysis" ELSE MethodByKey([k \in DOMAIN d \ {"text"} |-> d[k]])

\* what the scorer of the method does on its own part of the request
StatedScoring(method, d) ==
    CASE method = "text_analysis" ->
            calculate_text_sentiment(text_input, textblob_out, vader_out, vader_analyzer)
      [] method = "behavioral_analysis" ->
            IF d["activities"].t = "dict" THEN calculate_behavioral_sentiment(d["activities"].d)
            ELSE Raise("AttributeError")
      [] method = "survey_analysis" ->
            IF d["survey"].t = "dict" THEN calculate_survey_sentiment(d["survey"].d)
            ELSE Raise("AttributeError")
      [] method = "combined_analysis" -> Ok(c0_5)

\* the request got past the decorators and holds at least one key
Handled == HandlerDone /\ ret.t = "response" /\ DOMAIN request_json.d # {}

ValidateDone == pc = "done" /\ op = "validate_input_data"

\* v stands for a finite number between lo and hi
NumberWithin(v, lo, hi) ==
    /\ float_of(v).t = "ok"
    /\ float_of(v).v.t = "num"
    /\ FLe(FromInt(lo), float_of(v).v.v)
    /\ FLe(float_of(v).v.v, FromInt(hi))

\* v stands for an integer
Whole(v) ==
    /\ float_of(v).t = "ok"
    /\ float_of(v).v.t = "num"
    /\ FromInt(truncate(float_of(v).v.v)) = float_of(v).v.v

\* the range of each field as the claim gives it
StatedInRange(f, v) ==
    CASE f = "Sentiment_Score" -> NumberWithin(v, 0, 1)
      [] f = "HRV" -> NumberWithin(v, 0, 200)
      [] f \in {"Sleep_Hours", "Work_Study_Hours"} -> NumberWithin(v, 0, 24)
      [] f = "Activity" -> Whole(v) /\ NumberWithin(v, 0, 100000)
      [] f = "Age" -> Whole(v) /\ NumberWithin(v, 0, 120)
      [] f = "Gender" -> v \in {Str(<<"M", "a", "l", "e">>), Str(<<"F", "e", "m", "a", "l", "e">>)}

Fields == {FEATURE_COLUMNS[i] : i \in 1..Len(FEATURE_COLUMNS)}

\* the fields of d that are missing or out of range
Violations(d) == {f \in Fields : f \notin DOMAIN d \/ ~StatedInRange(f, d[f])}

\* C19: validate_input_data returns True exactly when all seven fields are
\* present and within range, and raises ValidationError on every other record.
C19_TrueExactlyInRange ==
    ValidateDone =>
        IF Violations(input_data.d) = {} THEN ret = Ok(TRUE)
        ELSE ret.t = "raise" /\ ret.exc = "ValidationError"

\* C20: the ValidationError carries exactly one entry for each field that is
\* missing (a 'Missing required field' entry) or present and invalid, whatever
\* the other fields are.
C20_EveryViolationListed ==
    (ValidateDone /\ Violations(input_data.d) # {}) =>
        /\ ret.t = "raise" /\ ret.exc = "ValidationError"
        /\ Len(ret.errors) = Cardinality(Violations(input_data.d))
        /\ {ret.errors[i].field : i \in 1..Len(ret.errors)} = Violations(input_data.d)
        /\ \A i \in 1..Len(ret.errors) :
                ret.errors[i].kind = "Missing required field"
                    <=> ret.errors[i].field \notin DOMAIN input_data.d

\* the modalities the request carries: a text that counts, activities, survey
Modalities(d) ==
    (IF TextCounts(d) THEN {"text"} ELSE {}) \cup (DOMAIN d \cap {"activities", "survey"})

C29_WitnessThree ==
    /\ Scored
    /\ Cardinality(Modalities(request_json.d)) = 3
    /\ ret.body.method_used = "text_analysis"

\* the level of a score by the thresholds 0.3 and 0.7 of the [0, 1] scale
StatedLevel(s) ==
    IF FLe(d0_7, s) THEN "positive" ELSE IF FLe(s, d0_3) THEN "negative" ELSE "neutral"

\* the unrounded score of the method the answer names
UnroundedScore == StatedScoring(ret.body.method_used, request_json.d).v

\* C30: the interpretation of an answer is the level of the unrounded score
\* of the selected method, not rescaled.  So a text whose score in [-1, 1] is
\* at most 0.3 (0.0 and every score below 0 included) is reported negative,
\* although its fused value (s + 1) / 2 is neutral when -0.4 < s < 0.4.
C30_TextBucketedUnscaled ==
    Scored =>
        /\ ret.body.interpretation.level = StatedLevel(UnroundedScore)
        /\ ret.body.interpretation = get_sentiment_interpretation(UnroundedScore)
        /\ ret.body.method_used = "text_analysis" =>
              /\ FLe(UnroundedScore, d0_3) => ret.body.interpretation.level = "negative"
              /\ (FLt(Lit(-4, 10), UnroundedScore) /\ FLt(UnroundedScore, Lit(4, 10))) =>
                    StatedLevel(FDiv(FAdd(UnroundedScore, c1_0), c2)) = "neutral"

\* a text without signal scores 0.0 and is reported negative
C30_Witness ==
    /\ Scored
    /\ ret.body.method_used = "text_analysis"
    /\ UnroundedScore = c0_0
    /\ ret.body.interpretation.level = "negative"
    /\ StatedLevel(FDiv(FAdd(UnroundedScore, c1_0), c2)) = "neutral"

\* a text scoring below 0 is reported negative
C30_WitnessBelowZero ==
    /\ Scored
    /\ ret.body.method_used = "text_analysis"
    /\ FLt(UnroundedScore, c0_0)
    /\ FLt(Lit(-4, 10), UnroundedScore)
    /\ ret.body.interpretation.level = "negative"

---------------------------------------------------------------------------
(* Properties of the crisis check, the error responses and /predict.       *)

CrisisDone == pc = "done" /\ op = "check_crisis_conditions"

d0_8 == Lit(8, 10)

\* the probability of 'Low' in the map, 0 when it has no such entry
StatedLowProbability(probabilities) ==
    IF "Low" \in DOMAIN probabilities THEN probabilities["Low"] ELSE c0_0

\* C21: check_crisis_conditions raises CrisisDetectionError exactly when the
\* prediction is 'Low' and the probability of 'Low' (0 when missing) is
\* strictly greater than 0.8; in every other case, a probability of exactly
\* 0.8 and any other prediction included, it returns False.
C21_CrisisExactlyAboveThreshold ==
    CrisisDone =>
        /\ ret.t \in {"raise", "ok"}
        /\ ret.t = "raise" <=>
              (args.prediction = "Low" /\ FLt(d0_8, StatedLowProbability(args.probabilities)))
        /\ ret.t = "raise" => ret.exc = "CrisisDetectionError"
        /\ ret.t = "ok" => ret.v = FALSE
        /\ StatedLowProbability(args.probabilities) = d0_8 => ret = Ok(FALSE)
        /\ args.prediction # "Low" => ret = Ok(FALSE)
        /\ "Low" \notin DOMAIN args.probabilities => ret = Ok(FALSE)

\* 'Low' with probability 0.85 raises
C21_Witness ==
    /\ CrisisDone
    /\ args.prediction = "Low"
    /\ "Low" \in DOMAIN args.probabilities
    /\ args.probabilities["Low"] = Lit(85, 100)
    /\ ret.t = "raise"
    /\ ret.exc = "CrisisDetectionError"

\* 'Low' with exactly 0.8 returns False
C21_WitnessAtThreshold ==
    /\ CrisisDone
    /\ args.prediction = "Low"
    /\ StatedLowProbability(args.probabilities) = d0_8
    /\ ret = Ok(FALSE)

ErrorDone == pc = "done" /\ op = "handle_error"

\* the classes that are MentalHealthError
MentalHealthErrors == {"MentalHealthError", "ValidationError", "ModelError", "CrisisDetectionError"}

\* C27: handle_error answers every MentalHealthError (ValidationError,
\* ModelError and CrisisDetectionError included) with status 400, the error's
\* user_message and its error_code, and never with a 'field' key; it answers
\* every other exception with status 500, error_code INTERNAL_ERROR and one
\* fixed message, which is not the text of the exception.
C27_ErrorResponses ==
    ErrorDone =>
        /\ ret.t = "response"
        /\ DOMAIN ret.body = {"error", "error_code", "timestamp"}
        /\ IF args.error.exc \in MentalHealthErrors
           THEN /\ ret.status = 400
                /\ ret.body.error = args.error.user_message
                /\ ret.body.error_code = args.error.error_code
           ELSE /\ ret.status = 500
                /\ ret.body.error_code = "INTERNAL_ERROR"
                /\ ret.body.error = "An unexpected error occurred. Please try again later."
                /\ "message" \in DOMAIN args.error => ret.body.error # args.error.message

\* a ValidationError is answered with 400 and without the field
C27_Witness ==
    /\ ErrorDone
    /\ args.error.exc = "ValidationError"
    /\ args.error.field = "input_data"
    /\ ret.status = 400
    /\ ret.body.error_code = "VALIDATION_ERROR"
    /\ "field" \notin DOMAIN ret.body

\* an exception of another class is answered with 500
C27_WitnessInternal ==
    /\ ErrorDone
    /\ args.error.exc = "ZeroDivisionError"
    /\ ret.status = 500
    /\ ret.body.error_code = "INTERNAL_ERROR"

PredictDone == pc = "done" /\ op = "predict"

\* /predict answered with a prediction
Predicted == PredictDone /\ ret.t = "response" /\ ret.status = 200

\* a response body without the probability values
Messaging(body) == [k \in DOMAIN body \ {"probabilities"} |-> body[k]]

\* the classifier outputs that are Low without a crisis
LowBelowThreshold ==
    {out \in ModelOutcomes :
        /\ out.t = "ok"
        /\ out.v.prediction = 0
        /\ ~FLt(d0_8, out.v.probs[0])}

\* C22: the /predict response for a Low prediction with a probability above
\* the crisis threshold differs, beyond the probability values, from the
\* response for a Low prediction that is not above the threshold.
C22_CrisisEscalates ==
    (/\ Predicted
     /\ crisis_flags(ret.body.prediction, ret.body.probabilities).crisis_detected) =>
        \A out \in LowBelowThreshold : Messaging(answer(out).body) # Messaging(ret.body)

\* what validate_input_data does on the data the handler reads
Validation == validate_input_data(sanitize_user_input(request_json.d))

\* C23: a /predict request whose data fails validate_input_data is answered
\* with status 400 and an 'error' field, the classifier is not invoked for it
\* and no session_id is assigned; a request with valid data for which the
\* classifier outputs class k is answered 200 with the prediction
\* HEALTH_STATUS_MAPPING[k] and a probabilities map.
C23_ValidationPrecedesInference ==
    PredictDone =>
        /\ Validation # Ok(TRUE) =>
              /\ ret.t = "response"
              /\ ret.status = 400
              /\ "error" \in DOMAIN ret.body
              /\ model_out = NotCalled
              /\ session = args.session
        /\ (Validation = Ok(TRUE) /\ model_out.t = "ok") =>
              /\ ret.t = "response"
              /\ ret.status = 200
              /\ ret.body.prediction = HEALTH_STATUS_MAPPING[model_out.v.prediction]
              /\ ret.body.prediction =
                     (CASE model_out.v.prediction = 0 -> "Low"
                        [] model_out.v.prediction = 1 -> "Moderate"
                        [] model_out.v.prediction = 2 -> "High")
              /\ DOMAIN ret.body.probabilities = {"Low", "Moderate", "High"}

\* the part of C23 that holds: data for which validate_input_data raises
\* ValidationError, past the security decorator, is refused with 400 before
\* the classifier and the session are touched; valid data is answered from
\* the classifier's output
C23_ValidationErrorRefused ==
    (PredictDone /\ validate_input_security(request_json.d)) =>
        /\ (Validation.t = "raise" /\ Validation.exc = "ValidationError") =>
              /\ ret.t = "response"
              /\ ret.status = 400
              /\ "error" \in DOMAIN ret.body
        /\ Validation # Ok(TRUE) => (model_out = NotCalled /\ session = args.session)
        /\ (Validation = Ok(TRUE) /\ model_out.t = "ok") =>
              /\ ret.status = 200
              /\ ret.body.prediction = HEALTH_STATUS_MAPPING[model_out.v.prediction]
              /\ "session_id" \in DOMAIN session

---------------------------------------------------------------------------
(* Properties of the security manager.                                     *)

RateDone == pc = "done" /\ op = "check_rate_limit"

\* the minute the clock is in
StatedWindow == CHOOSE w \in 0..now : 60 * w <= now /\ now < 60 * (w + 1)

\* the calls the address of the last call has made in the current minute
CallsThisWindow == calls[args.ip_address][StatedWindow]

\* after a call: it passed exactly when it is not beyond the limit among the
\* calls of its address in its minute, and the table of the address holds
\* the counts of this minute and, if any, of the minute before, nothing else
RateLimitCounted ==
    RateDone =>
        /\ ret[1] = (CallsThisWindow <= RATE_LIMIT_PER_MINUTE)
        /\ StatedWindow \in DOMAIN rate_limits[args.ip_address]
        /\ DOMAIN rate_limits[args.ip_address] \subseteq {StatedWindow, StatedWindow - 1}
        /\ \A w \in DOMAIN rate_limits[args.ip_address] :
              rate_limits[args.ip_address][w] = calls[args.ip_address][w]

\* a step leaves the tables of the addresses it is not a call of as they are
OtherAddressesUntouched ==
    \A ip \in IPs :
        (pc' = "done" /\ args'.ip_address = ip) \/
        (/\ (ip \in DOMAIN rate_limits') = (ip \in DOMAIN rate_limits)
         /\ table_of(rate_limits', ip) = table_of(rate_limits, ip))

\* C25: on one SecurityManager the n-th check_rate_limit call of an address
\* within a minute window returns True exactly when n <= RATE_LIMIT_PER_MINUTE,
\* rejected calls counting too; the counters of different addresses do not
\* affect each other; after every call the table of the address holds
\* counters only for the current and the preceding minute window.
C25_RateLimitPerWindow == []RateLimitCounted /\ [][OtherAddressesUntouched]_vars

\* the call after the last one allowed is rejected and counted
C25_Witness ==
    /\ RateDone
    /\ CallsThisWindow = RATE_LIMIT_PER_MINUTE + 2
    /\ ret[1] = FALSE
    /\ rate_limits[args.ip_address][StatedWindow] = RATE_LIMIT_PER_MINUTE + 2

\* a call in the third minute: the count of the first minute is gone
C25_WitnessCleaned ==
    /\ RateDone
    /\ StatedWindow = 2
    /\ DOMAIN calls[args.ip_address] = {0, 1, 2}
    /\ DOMAIN rate_limits[args.ip_address] = {1, 2}
    /\ ret[1] = TRUE

AttemptsChecked == pc = "done" /\ op = "check_failed_attempts"

\* the attempts ever logged for the address that are less than 3600 seconds old
RecentLogged(ip_address) ==
    SelectSeq(table_of(logged, ip_address), LAMBDA t : now - t < 3600)

\* after a check: it failed exactly when more than 10 attempts of the address
\* are recent, and the list of the address holds the recent attempts only
AttemptsCounted ==
    AttemptsChecked =>
        /\ ret[1] = ~(Len(RecentLogged(args.ip_address)) > 10)
        /\ failed_attempts[args.ip_address] = RecentLogged(args.ip_address)
        /\ ret[1] = FALSE => args.ip_address \in blocked_ips

\* a check adds its address to blocked_ips exactly when it fails; no step
\* adds any other address or removes one
BlockedOnlyGrows ==
    /\ blocked_ips \subseteq blocked_ips'
    /\ IF pc' = "done" /\ op' = "check_failed_attempts" /\ ret'[1] = FALSE
       THEN blocked_ips' = blocked_ips \cup {args'.ip_address}
       ELSE blocked_ips' = blocked_ips

C26_WitnessPruned ==
    /\ AttemptsChecked
    /\ Len(table_of(logged, args.ip_address)) >= 11
    /\ Len(RecentLogged(args.ip_address)) = 0
    /\ failed_attempts[args.ip_address] = <<>>
    /\ ret[1] = TRUE
    /\ args.ip_address \in blocked_ips

RequestChecked == pc = "done" /\ op = "require_security_check"

\* C24: once an address has sent more than RATE_LIMIT_PER_MINUTE requests
\* within one minute window, its further requests in that window are
\* rejected and do not reach the wrapped handler.
C24_LimitAcrossRequests ==
    (RequestChecked /\ CallsThisWindow > RATE_LIMIT_PER_MINUTE) => ret # Ok("f")

\* what holds instead: every request reaches the handler, however many came
\* before it
C24_EveryRequestPasses == RequestChecked => ret = Ok("f")

---------------------------------------------------------------------------
(* Properties of the encryption helpers.                                   *)

EncryptDone == pc = "done" /\ op = "encrypt_sensitive_data"
DecryptDone == pc = "done" /\ op = "decrypt_sensitive_data"

\* C28: for every string data and every non-empty key encryption does not
\* fail, and decrypting what it returned with the same key gives data back,
\* also for strings with more bytes than characters.
C28_RoundTrip ==
    /\ EncryptDone => ret.t = "ok"
    /\ DecryptDone => ret = Ok(args.data)

\* what holds: every string that encrypt_sensitive_data accepts comes back,
\* and it accepts every string that has one byte per character
C28_RoundTripWhenEncrypted ==
    /\ (EncryptDone /\ \A i \in DOMAIN args.data : args.data[i] < 128) => ret.t = "ok"
    /\ (EncryptDone /\ ret.t = "raise") =>
          (ret.exc = "IndexError" /\ Len(encode(args.data)) > Len(args.data))
    /\ DecryptDone => ret = Ok(args.data)

\* a string with a two-byte character that is encrypted and comes back
C28_MultiByteRoundTrip ==
    /\ DecryptDone
    /\ args.data = <<233>>
    /\ ret = Ok(<<233>>)

=============================================================================
